---- MODULE Spec2Model ----
(***************************************************************************)
(* Verification model of the resilient fetch-orchestration core of         *)
(* dub-rip: the PO-token cache (src/lib/yt-token.ts), the allow-listed     *)
(* redirect-following fetcher (src/lib/cobalt.ts) and the download-stream  *)
(* controller (src/routes/api/download-stream/+server.ts).                 *)
(***************************************************************************)
EXTENDS Integers, Sequences, FiniteSets, TLC

(***************************************************************************)
(* Part 1.  Token cache  (src/src/lib/yt-token.ts, lines 89-203)           *)
(***************************************************************************)

\* Program constants, in milliseconds.
CACHE_TTL_MS == 3000000
GENERATION_TIMEOUT_MS == 30000
FAILURE_BACKOFF_MS == 30000
MAX_STALE_MS == CACHE_TTL_MS * 2

\* The value null (no token, no promise, no failure recorded).
Null == 0

\* Bounds of the model.
NumCallers == 2
MaxCalls == 3
MaxTicks == 4
StartTime == 1

Callers == 1..NumCallers

\* Clock advances the model takes: one millisecond, and one millisecond short
\* of each window, so that every boundary is hit exactly, from both sides.
Delays == {1, FAILURE_BACKOFF_MS - 1, CACHE_TTL_MS - 1}

\* How a pending generate() call can settle.
GenOutcomes == {"token", "incomplete", "malformed", "rejected"}

VARIABLES
    now,              \* Date.now()
    ticks,            \* number of clock advances taken (bounded by MaxTicks)
    cached,           \* <<>> (null) or <<[result, fetchedAt]>>
    lastFailedAt,     \* 0 or the time of the last failed generation
    inFlight,         \* Null or the id of the attempt whose promise it holds
    activeGeneration, \* Null or the id of the generate() promise it holds
    generations,      \* ids of the generate() promises not yet settled
    attempts,         \* the suspended attempts: [id, gen, startedAt]
    callers,          \* per caller: [pc, on]
    calls,            \* number of fetchPoToken calls made so far
    last,             \* how the most recent fetchPoToken call(s) settled
    expiredRead       \* a call has already seen the current entry expired

tokenVars == <<now, ticks, cached, lastFailedAt, inFlight, activeGeneration,
               generations, attempts, callers, calls, last, expiredRead>>

\* Mutant of isCacheValid: the entry still counts as valid at exactly TTL.
isCacheValid_Inclusive ==
    cached # <<>> /\ now - cached[1].fetchedAt <= CACHE_TTL_MS

isCacheValid ==
    cached # <<>> /\ now - cached[1].fetchedAt < CACHE_TTL_MS

\* Mutant of isCacheUsable: any cached entry is reused, whatever its age.
isCacheUsable_AnyAge ==
    cached # <<>>

isCacheUsable ==
    cached # <<>> /\ now - cached[1].fetchedAt < MAX_STALE_MS

\* Mutant of inBackoff: the window is still closed at exactly the backoff.
inBackoff_Inclusive ==
    lastFailedAt # 0 /\ now - lastFailedAt <= FAILURE_BACKOFF_MS

inBackoff ==
    lastFailedAt # 0 /\ now - lastFailedAt < FAILURE_BACKOFF_MS

\* Mutant of HasInFlight: the in-flight promise is never consulted.
HasInFlight_Ignored == FALSE

\* `if (inFlight)`
HasInFlight == inFlight # Null

\* `cached?.result ?? null`
CachedResult == IF cached # <<>> THEN cached[1].result ELSE Null

\* `if (isCacheUsable()) return cached?.result ?? null; return null;`
StaleOrNull == IF isCacheUsable THEN CachedResult ELSE Null

\* Age of the token a call returns, -1 when it returns null.
AgeOf(c, value) ==
    IF value = Null \/ c = <<>> THEN -1 ELSE now - c[1].fetchedAt

NoLast == [n |-> 0, via |-> "none", outcome |-> "none", value |-> Null,
           age |-> -1, settled |-> "none"]

TokenInit ==
    /\ now = StartTime
    /\ ticks = 0
    /\ cached = <<>>
    /\ lastFailedAt = 0
    /\ inFlight = Null
    /\ activeGeneration = Null
    /\ generations = {}
    /\ attempts = {}
    /\ callers = [c \in Callers |-> [pc |-> "idle", on |-> Null]]
    /\ calls = 0
    /\ last = NoLast
    /\ expiredRead = FALSE

\* Time passes between two turns of the event loop.
Tick ==
    /\ ticks < MaxTicks
    /\ \E d \in Delays : now' = now + d
    /\ ticks' = ticks + 1
    /\ UNCHANGED <<cached, lastFailedAt, inFlight, activeGeneration, generations,
                   attempts, callers, calls, last, expiredRead>>

clearCache ==
    /\ cached' = <<>>
    /\ lastFailedAt' = 0
    /\ activeGeneration' = Null
    /\ expiredRead' = FALSE
    /\ UNCHANGED <<now, ticks, inFlight, generations, attempts, callers, calls, last>>

\* The first branches of fetchPoToken, which return without generating.
FastPath(c) ==
    /\ isCacheValid
    /\ last' = [n |-> 1, via |-> "fast", outcome |-> "none",
                value |-> CachedResult, age |-> AgeOf(cached, CachedResult),
                settled |-> "resolved"]
    /\ UNCHANGED <<inFlight, activeGeneration, generations, attempts, callers>>

JoinInFlight(c) ==
    /\ ~isCacheValid
    /\ HasInFlight
    /\ callers' = [callers EXCEPT ![c] = [pc |-> "waiting", on |-> inFlight]]
    /\ UNCHANGED <<inFlight, activeGeneration, generations, attempts, last>>

BackoffPath(c) ==
    /\ ~isCacheValid
    /\ ~HasInFlight
    /\ inBackoff
    /\ last' = [n |-> 1, via |-> "backoff", outcome |-> "none",
                value |-> StaleOrNull, age |-> AgeOf(cached, StaleOrNull),
                settled |-> "resolved"]
    /\ UNCHANGED <<inFlight, activeGeneration, generations, attempts, callers>>

\* generateWithTimeout up to its await: generate() is called only when no
\* earlier generation is still held in activeGeneration; the new attempt (id
\* `calls + 1`) races that generation against a timer started now.
StartAttempt(c) ==
    /\ ~isCacheValid
    /\ ~HasInFlight
    /\ ~inBackoff
    /\ LET a == calls + 1
           g == IF activeGeneration = Null THEN a ELSE activeGeneration
       IN  /\ activeGeneration' = g
           /\ generations' = generations \cup {g}
           /\ attempts' = attempts \cup {[id |-> a, gen |-> g, startedAt |-> now]}
           /\ inFlight' = a
           /\ callers' = [callers EXCEPT ![c] = [pc |-> "waiting", on |-> a]]
    /\ UNCHANGED last

fetchPoToken(c) ==
    /\ callers[c].pc = "idle"
    /\ calls < MaxCalls
    /\ calls' = calls + 1
    /\ expiredRead' = (expiredRead \/ (cached # <<>> /\ ~isCacheValid))
    /\ \/ FastPath(c)
       \/ JoinInFlight(c)
       \/ BackoffPath(c)
       \/ StartAttempt(c)
    /\ UNCHANGED <<now, ticks, cached, lastFailedAt>>

\* The body of the attempt after `await generateWithTimeout()` settles with
\* `outcome` ("timeout" when the timer won the race), for generation g.
Raises(outcome) == outcome \in {"malformed", "rejected", "timeout"}

\* Mutant of Caught: only a rejection of the generator itself is handled.
Caught_OnlyRejection(outcome) == outcome = "rejected"

\* `catch (err)` of the attempt catches whatever the try block raised.
Caught(outcome) == Raises(outcome)

AttemptSucceeds(outcome) == outcome = "token"

\* Mutant of AttemptCached: a failed attempt drops the cached entry.
AttemptCached_DroppedOnFailure(outcome, g) ==
    IF AttemptSucceeds(outcome) THEN <<[result |-> g, fetchedAt |-> now]>> ELSE <<>>

AttemptCached(outcome, g) ==
    IF AttemptSucceeds(outcome) THEN <<[result |-> g, fetchedAt |-> now]>> ELSE cached

AttemptLastFailedAt(outcome) ==
    IF AttemptSucceeds(outcome) THEN 0 ELSE now

AttemptValue(outcome, g) ==
    IF AttemptSucceeds(outcome) THEN g ELSE StaleOrNull

\* Mutant of InFlightAfter: the marker is released only by a success.
InFlightAfter_KeptOnFailure(outcome) ==
    IF AttemptSucceeds(outcome) THEN Null ELSE inFlight

\* `finally { inFlight = null; }`
InFlightAfter(outcome) == Null

AttemptSettled(outcome) ==
    IF Raises(outcome) /\ ~Caught(outcome) THEN "rejected" ELSE "resolved"

\* The attempts in `as` resume with `outcome`; every caller awaiting one of
\* their promises settles with it.
Resume(as, outcome, g) ==
    LET ids == {a.id : a \in as}
        who == {c \in Callers : callers[c].pc = "waiting" /\ callers[c].on \in ids}
        caught == AttemptSettled(outcome) = "resolved"
        value == IF caught THEN AttemptValue(outcome, g) ELSE Null
    IN  /\ attempts' = attempts \ as
        /\ cached' = AttemptCached(outcome, g)
        /\ lastFailedAt' = IF caught THEN AttemptLastFailedAt(outcome) ELSE lastFailedAt
        /\ inFlight' = InFlightAfter(outcome)
        /\ expiredRead' = IF AttemptSucceeds(outcome) THEN FALSE ELSE expiredRead
        /\ callers' = [c \in Callers |->
                         IF c \in who THEN [pc |-> "idle", on |-> Null] ELSE callers[c]]
        /\ last' = [n |-> Cardinality(who), via |-> "attempt", outcome |-> outcome,
                    value |-> value,
                    age |-> AgeOf(AttemptCached(outcome, g), value),
                    settled |-> AttemptSettled(outcome)]

\* A generate() promise settles: its then-callbacks release activeGeneration,
\* and the attempt racing it (if its timer has not fired) resumes.
GenerateSettles(g, outcome) ==
    /\ g \in generations
    /\ generations' = generations \ {g}
    /\ activeGeneration' = IF activeGeneration = g THEN Null ELSE activeGeneration
    /\ LET as == {a \in attempts : a.gen = g}
       IN  IF as = {}
           THEN UNCHANGED <<cached, lastFailedAt, inFlight, attempts, callers, last,
                            expiredRead>>
           ELSE Resume(as, outcome, g)
    /\ UNCHANGED <<now, ticks, calls>>

\* The timer of generateWithTimeout fires: the race rejects.
GenerationTimeout(a) ==
    /\ a \in attempts
    /\ now - a.startedAt >= GENERATION_TIMEOUT_MS
    /\ Resume({a}, "timeout", a.gen)
    /\ UNCHANGED <<now, ticks, calls, activeGeneration, generations>>

\* Time passes, without bound, until the timer an attempt started is due.
TimerRuns(a) ==
    /\ a \in attempts
    /\ now < a.startedAt + GENERATION_TIMEOUT_MS
    /\ now' = a.startedAt + GENERATION_TIMEOUT_MS
    /\ UNCHANGED <<ticks, cached, lastFailedAt, inFlight, activeGeneration,
                   generations, attempts, callers, calls, last, expiredRead>>

(***************************************************************************)
(* Part 2.  Allow-listed redirect-following fetcher  (src/src/lib/cobalt.ts)*)
(***************************************************************************)

MAX_REDIRECTS == 5

\* Default of fetchCobaltAudio's timeout parameter, in milliseconds.
FETCH_TIMEOUT_MS == 60000

\* Bounds of the model: the longest body, in chunks, a response streams.
MaxChunks == 2

\* Host names are sequences of characters, so that suffix tests see the dot.
h_cobalt_tools == <<"c", "o", "b", "a", "l", "t", ".", "t", "o", "o", "l", "s">>
h_api_cobalt_tools == <<"a", "p", "i", ".", "c", "o", "b", "a", "l", "t", ".", "t", "o", "o", "l", "s">>
h_download_cobalt_tools == <<"d", "o", "w", "n", "l", "o", "a", "d", ".", "c", "o", "b", "a", "l", "t", ".", "t", "o", "o", "l", "s">>
h_cdn_cobalt_tools == <<"c", "d", "n", ".", "c", "o", "b", "a", "l", "t", ".", "t", "o", "o", "l", "s">>
h_evilcobalt_tools == <<"e", "v", "i", "l", "c", "o", "b", "a", "l", "t", ".", "t", "o", "o", "l", "s">>
h_metadata == <<"1", "6", "9", ".", "2", "5", "4", ".", "1", "6", "9", ".", "2", "5", "4">>
h_private == <<"c", "o", "b", "a", "l", "t", ".", "r", "a", "i", "l", "w", "a", "y", ".", "i", "n", "t", "e", "r", "n", "a", "l">>
h_sub_private == <<"x", ".", "c", "o", "b", "a", "l", "t", ".", "r", "a", "i", "l", "w", "a", "y", ".", "i", "n", "t", "e", "r", "n", "a", "l">>
h_tunnel == <<"t", "u", "n", "n", "e", "l", ".", "e", "x", "a", "m", "p", "l", "e", ".", "c", "o", "m">>
h_sub_tunnel == <<"a", ".", "t", "u", "n", "n", "e", "l", ".", "e", "x", "a", "m", "p", "l", "e", ".", "c", "o", "m">>
h_localhost == <<"l", "o", "c", "a", "l", "h", "o", "s", "t">>

s_dot_internal == <<".", "i", "n", "t", "e", "r", "n", "a", "l">>
s_dot_railway_internal == <<".", "r", "a", "i", "l", "w", "a", "y", ".", "i", "n", "t", "e", "r", "n", "a", "l">>
Digits == {"0", "1", "2", "3", "4", "5", "6", "7", "8", "9"}

DEFAULT_ALLOWED_DOWNLOAD_HOSTS ==
    {h_cobalt_tools, h_api_cobalt_tools, h_download_cobalt_tools, h_cdn_cobalt_tools}

\* A URL string: "abs" parses on its own, "rel" only against a base, "bad"
\* never (new URL throws).
Url(scheme, host, path) ==
    [kind |-> "abs", scheme |-> scheme, host |-> host, path |-> path]
RelativeRef(path) == [kind |-> "rel", scheme |-> "", host |-> <<>>, path |-> path]
BadRef == [kind |-> "bad", scheme |-> "", host |-> <<>>, path |-> "https://["]

\* The default of getCobaltApiUrl.
DefaultApiUrl == Url("https", h_api_cobalt_tools, "/")

\* Deployments: COBALT_API_URL and COBALT_TUNNEL_HOST (<<>>: unset).
Deployments ==
    {[apiUrl |-> <<>>, tunnelHost |-> <<>>],
     [apiUrl |-> <<>>, tunnelHost |-> <<h_tunnel>>],
     [apiUrl |-> <<Url("http", h_private, "/")>>, tunnelHost |-> <<>>],
     [apiUrl |-> <<Url("http", h_api_cobalt_tools, "/")>>, tunnelHost |-> <<>>],
     [apiUrl |-> <<RelativeRef("cobalt")>>, tunnelHost |-> <<>>]}

\* URL strings the Cobalt API or a redirecting server may hand out.
DownloadUrls ==
    {Url("https", h_cdn_cobalt_tools, "/a"),
     Url("http", h_cdn_cobalt_tools, "/a"),
     Url("ftp", h_cdn_cobalt_tools, "/a"),
     Url("https", h_evilcobalt_tools, "/a"),
     Url("http", h_metadata, "/latest/meta-data/"),
     Url("https", h_metadata, "/latest/meta-data/"),
     Url("https", h_localhost, "/admin"),
     Url("http", h_private, "/a"),
     Url("http", h_sub_private, "/a"),
     Url("https", h_sub_tunnel, "/a"),
     RelativeRef("not a url")}

\* Values of a Location header (<<>>: no header).
Locations ==
    {<<>>, <<RelativeRef("/b")>>, <<BadRef>>} \cup {<<u>> : u \in DownloadUrls}

\* `new URL(s)`: <<>> when it throws.
ParseUrl(s) ==
    IF s.kind = "abs"
    THEN <<[protocol |-> s.scheme \o ":", hostname |-> s.host, pathname |-> s.path]>>
    ELSE <<>>

\* `new URL(location, base).href`: <<>> when it throws.
ResolveUrl(location, base) ==
    CASE location.kind = "abs" -> <<location>>
      [] location.kind = "rel" /\ base.kind = "abs" ->
             <<Url(base.scheme, base.host, location.path)>>
      [] OTHER -> <<>>

EndsWith(s, suffix) ==
    Len(s) >= Len(suffix) /\ SubSeq(s, Len(s) - Len(suffix) + 1, Len(s)) = suffix

\* The dot-separated labels of a host name.
RECURSIVE Labels(_)
Labels(h) ==
    IF \A i \in 1..Len(h) : h[i] # "."
    THEN <<h>>
    ELSE LET k == CHOOSE i \in 1..Len(h) :
                      h[i] = "." /\ \A j \in 1..(i - 1) : h[j] # "."
         IN  <<SubSeq(h, 1, k - 1)>> \o Labels(SubSeq(h, k + 1, Len(h)))

\* `\d{1,3}`
IsOctet(l) == Len(l) \in 1..3 /\ \A i \in 1..Len(l) : l[i] \in Digits

\* `(1[6-9]|2\d|3[01])`
Is172Range(l) ==
    /\ Len(l) = 2
    /\ \/ l[1] = "1" /\ l[2] \in {"6", "7", "8", "9"}
       \/ l[1] = "2" /\ l[2] \in Digits
       \/ l[1] = "3" /\ l[2] \in {"0", "1"}

\* PRIVATE_HOSTNAME_PATTERNS.some(pattern => pattern.test(hostname))
isPrivateHostname(hostname) ==
    LET l == Labels(hostname)
        quad == Len(l) = 4 /\ IsOctet(l[3]) /\ IsOctet(l[4])
    IN  \/ EndsWith(hostname, s_dot_internal)
        \/ EndsWith(hostname, s_dot_railway_internal)
        \/ hostname = h_localhost
        \/ quad /\ l[1] = <<"1", "2", "7">> /\ IsOctet(l[2])
        \/ quad /\ l[1] = <<"1", "0">> /\ IsOctet(l[2])
        \/ quad /\ l[1] = <<"1", "7", "2">> /\ Is172Range(l[2])
        \/ quad /\ l[1] = <<"1", "9", "2">> /\ l[2] = <<"1", "6", "8">>

VARIABLES
    env,           \* [apiUrl, tunnelHost]: COBALT_API_URL, COBALT_TUNNEL_HOST
    fpc,           \* where fetchCobaltAudio is
    downloadUrl,   \* its argument
    onProgress,    \* whether a progress callback was passed
    currentUrl,
    redirectCount,
    requests,      \* the URLs fetch() was called with, in order
    responses,     \* the responses received, in order
    body,          \* chunks of the response body not yet read
    totalBytes,    \* <<>> (null) or <<content-length>>
    bytesReceived,
    progress,      \* the arguments onProgress was called with, in order
    outcome,       \* [kind, message, byteLength]: how the call settled
    timer,         \* <<>> (none armed) or <<ms left until the abort timer fires>>
    timerStarts    \* number of setTimeout calls made

fetchVars == <<env, fpc, downloadUrl, onProgress, currentUrl, redirectCount,
               requests, responses, body, totalBytes, bytesReceived, progress,
               outcome, timer, timerStarts>>

getCobaltApiUrl == IF env.apiUrl = <<>> THEN DefaultApiUrl ELSE env.apiUrl[1]

getCobaltTunnelHost == env.tunnelHost

\* Mutant of isPrivateCobaltInstance: any http API URL counts as private.
isPrivateCobaltInstance_AnyHttp ==
    LET parsed == ParseUrl(getCobaltApiUrl)
    IN  parsed # <<>> /\ parsed[1].protocol = "http:"

isPrivateCobaltInstance ==
    LET parsed == ParseUrl(getCobaltApiUrl)
    IN  /\ parsed # <<>>
        /\ parsed[1].protocol = "http:"
        /\ isPrivateHostname(parsed[1].hostname)

getAllowedDownloadHosts ==
    LET parsed == ParseUrl(getCobaltApiUrl)
    IN  DEFAULT_ALLOWED_DOWNLOAD_HOSTS
          \cup (IF parsed # <<>> THEN {parsed[1].hostname} ELSE {})
          \cup (IF getCobaltTunnelHost # <<>> /\ getCobaltTunnelHost[1] # <<>>
                THEN {getCobaltTunnelHost[1]} ELSE {})

\* The host test of isAllowedDownloadUrl for one allowed host.
HostMatches(hostname, host, cobaltHostname) ==
    IF hostname = host THEN TRUE
    ELSE IF host = cobaltHostname /\ isPrivateHostname(host) THEN hostname = host
    ELSE EndsWith(hostname, <<".">> \o host)

isAllowedDownloadUrl(url) ==
    LET parsed == ParseUrl(url)
        isPrivate == isPrivateCobaltInstance
        api == ParseUrl(getCobaltApiUrl)
    IN  /\ parsed # <<>>
        /\ isPrivate \/ parsed[1].protocol = "https:"
        /\ ~isPrivate \/ parsed[1].protocol \in {"http:", "https:"}
        /\ api # <<>>
        /\ \E host \in getAllowedDownloadHosts :
               HostMatches(parsed[1].hostname, host, api[1].hostname)

NoOutcome == [kind |-> "pending", message |-> "", byteLength |-> 0]
Rejected(kind, message) == [kind |-> kind, message |-> message, byteLength |-> 0]
Returned(n) == [kind |-> "ok", message |-> "", byteLength |-> n]

FetchInit ==
    /\ env \in Deployments
    /\ fpc = "idle"
    /\ downloadUrl = BadRef
    /\ onProgress = FALSE
    /\ currentUrl = BadRef
    /\ redirectCount = 0
    /\ requests = <<>>
    /\ responses = <<>>
    /\ body = <<>>
    /\ totalBytes = <<>>
    /\ bytesReceived = 0
    /\ progress = <<>>
    /\ outcome = NoOutcome
    /\ timer = <<>>
    /\ timerStarts = 0

\* `finally { clearTimeout(timeoutId) }`
ClearTimer == timer' = <<>> /\ UNCHANGED timerStarts

KeepTimer == UNCHANGED <<timer, timerStarts>>

\* Mutant of TimerOnRedirect: each hop gets a fresh deadline.
TimerOnRedirect_Restarted == <<FETCH_TIMEOUT_MS>>

\* The redirect branch leaves the timer armed before the loop as it is.
TimerOnRedirect == timer

\* Mutant of InitialUrlAllowed: the download URL is used as received.
InitialUrlAllowed_Unchecked(url) == TRUE

\* `if (!isAllowedDownloadUrl(downloadUrl))` on entry.
InitialUrlAllowed(url) == isAllowedDownloadUrl(url)

\* Mutant of RedirectAllowed: redirect targets are followed as received.
RedirectAllowed_Unchecked(url) == TRUE

\* `if (!isAllowedDownloadUrl(redirectUrl))` in the redirect loop.
RedirectAllowed(url) == isAllowedDownloadUrl(url)

\* fetchCobaltAudio up to its first await: the URL is validated, then the
\* timer is armed and the loop entered.  Reporting a refused URL reads
\* `new URL(downloadUrl).hostname`, which throws for a string that is no URL.
fetchCobaltAudio(url, withProgress) ==
    /\ fpc = "idle"
    /\ downloadUrl' = url
    /\ onProgress' = withProgress
    /\ IF ~InitialUrlAllowed(url)
       THEN /\ fpc' = "failed"
            /\ outcome' = IF ParseUrl(url) = <<>>
                          THEN Rejected("TypeError", "Invalid URL")
                          ELSE Rejected("CobaltError", "Invalid download URL from Cobalt")
            /\ UNCHANGED currentUrl
            /\ KeepTimer
       ELSE /\ fpc' = "loop"
            /\ currentUrl' = url
            /\ timer' = <<FETCH_TIMEOUT_MS>>
            /\ timerStarts' = timerStarts + 1
            /\ UNCHANGED outcome
    /\ UNCHANGED <<env, redirectCount, requests, responses, body, totalBytes,
                   bytesReceived, progress>>

\* Head of the while loop: the next request is issued, or the bound is hit.
IssueRequest ==
    /\ fpc = "loop"
    /\ IF redirectCount < MAX_REDIRECTS
       THEN /\ requests' = Append(requests, currentUrl)
            /\ fpc' = "awaiting"
            /\ KeepTimer
            /\ UNCHANGED outcome
       ELSE /\ fpc' = "failed"
            /\ outcome' = Rejected("CobaltError", "Too many redirects")
            /\ ClearTimer
            /\ UNCHANGED requests
    /\ UNCHANGED <<env, downloadUrl, onProgress, currentUrl, redirectCount, responses,
                   body, totalBytes, bytesReceived, progress>>

\* A 3xx response arrives, with or without a Location header.
ReceiveRedirect(location) ==
    /\ fpc = "awaiting"
    /\ responses' = Append(responses, [status |-> 302, location |-> location])
    /\ LET target == IF location = <<>> THEN <<>> ELSE ResolveUrl(location[1], currentUrl)
       IN  IF location = <<>>
           THEN /\ fpc' = "failed"
                /\ outcome' = Rejected("CobaltError", "Redirect without location header")
                /\ ClearTimer
                /\ UNCHANGED <<currentUrl, redirectCount>>
           ELSE IF target = <<>>
           THEN /\ fpc' = "failed"
                /\ outcome' = Rejected("CobaltError", "Cobalt download failed: Invalid URL")
                /\ ClearTimer
                /\ UNCHANGED <<currentUrl, redirectCount>>
           ELSE IF ~RedirectAllowed(target[1])
           THEN /\ fpc' = "failed"
                /\ outcome' = Rejected("CobaltError", "Redirect to disallowed URL blocked")
                /\ ClearTimer
                /\ UNCHANGED <<currentUrl, redirectCount>>
           ELSE /\ fpc' = "loop"
                /\ currentUrl' = target[1]
                /\ redirectCount' = redirectCount + 1
                /\ timer' = TimerOnRedirect
                /\ UNCHANGED <<outcome, timerStarts>>
    /\ UNCHANGED <<env, downloadUrl, onProgress, requests, body, totalBytes,
                   bytesReceived, progress>>

\* A response with a status outside 2xx and 3xx arrives.
ReceiveNotOk ==
    /\ fpc = "awaiting"
    /\ responses' = Append(responses, [status |-> 404, location |-> <<>>])
    /\ fpc' = "failed"
    /\ outcome' = Rejected("CobaltError", "Failed to download from Cobalt: 404")
    /\ ClearTimer
    /\ UNCHANGED <<env, downloadUrl, onProgress, currentUrl, redirectCount, requests,
                   body, totalBytes, bytesReceived, progress>>

RECURSIVE Sum(_)
Sum(chunks) ==
    IF chunks = <<>> THEN 0 ELSE Head(chunks) + Sum(Tail(chunks))

\* Response bodies: up to MaxChunks chunks of unequal sizes.
Bodies == {[i \in 1..n |-> n - i + 1] : n \in 0..MaxChunks}

\* A 2xx response arrives.  Without a callback the body is taken whole by
\* arrayBuffer(); with one it is read chunk by chunk.
ReceiveOk(chunks, hasLength) ==
    /\ fpc = "awaiting"
    /\ responses' = Append(responses, [status |-> 200, location |-> <<>>])
    /\ IF ~onProgress
       THEN /\ fpc' = "done"
            /\ outcome' = Returned(Sum(chunks))
            /\ ClearTimer
            /\ UNCHANGED <<body, totalBytes>>
       ELSE /\ fpc' = "reading"
            /\ body' = chunks
            /\ totalBytes' = IF hasLength THEN <<Sum(chunks)>> ELSE <<>>
            /\ KeepTimer
            /\ UNCHANGED outcome
    /\ UNCHANGED <<env, downloadUrl, onProgress, currentUrl, redirectCount, requests,
                   bytesReceived, progress>>

\* Mutant of Percent: the ratio is not scaled to a percentage.
Percent_Unscaled(received, total) ==
    IF total # <<>> /\ total[1] # 0 THEN (received * 100) \div total[1] ELSE 0

\* `totalBytes ? (bytesReceived / totalBytes) * 100 : 0`, in hundredths.
Percent(received, total) ==
    IF total # <<>> /\ total[1] # 0 THEN (received * 10000) \div total[1] ELSE 0

\* One turn of the read loop.
ReadChunk ==
    /\ fpc = "reading"
    /\ IF body = <<>>
       THEN /\ fpc' = "done"
            /\ outcome' = Returned(bytesReceived)
            /\ ClearTimer
            /\ UNCHANGED <<body, bytesReceived, progress>>
       ELSE /\ body' = Tail(body)
            /\ bytesReceived' = bytesReceived + Head(body)
            /\ progress' = Append(progress,
                   [bytesReceived |-> bytesReceived + Head(body),
                    totalBytes |-> totalBytes,
                    percent |-> Percent(bytesReceived + Head(body), totalBytes)])
            /\ KeepTimer
            /\ UNCHANGED <<fpc, outcome>>
    /\ UNCHANGED <<env, downloadUrl, onProgress, currentUrl, redirectCount, requests,
                   responses, totalBytes>>

\* fetch() or reader.read() rejects with a network error.
NetworkError ==
    /\ fpc \in {"awaiting", "reading"}
    /\ fpc' = "failed"
    /\ outcome' = Rejected("CobaltError", "Cobalt download failed: fetch failed")
    /\ ClearTimer
    /\ UNCHANGED <<env, downloadUrl, onProgress, currentUrl, redirectCount, requests,
                   responses, body, totalBytes, bytesReceived, progress>>

\* Time passes while the call is suspended.
Elapse(d) ==
    /\ fpc \in {"awaiting", "reading"}
    /\ timer # <<>> /\ timer[1] > 0
    /\ timer' = <<IF timer[1] > d THEN timer[1] - d ELSE 0>>
    /\ UNCHANGED <<env, fpc, downloadUrl, onProgress, currentUrl, redirectCount,
                   requests, responses, body, totalBytes, bytesReceived, progress,
                   outcome, timerStarts>>

\* The timer aborts the controller: the pending await rejects with AbortError.
DownloadTimeout ==
    /\ fpc \in {"awaiting", "reading"}
    /\ timer = <<0>>
    /\ fpc' = "failed"
    /\ outcome' = Rejected("CobaltError", "Cobalt download timed out")
    /\ ClearTimer
    /\ UNCHANGED <<env, downloadUrl, onProgress, currentUrl, redirectCount, requests,
                   responses, body, totalBytes, bytesReceived, progress>>

(***************************************************************************)
(* Part 3.  Download-stream controller                                     *)
(*          (src/src/routes/api/download-stream/+server.ts)                *)
(***************************************************************************)

\* Events a fallback process may emit before it closes or errors.
MaxProcEvents == 1

\* Progress reports the primary download may deliver.
MaxProgressReports == 1

VARIABLES
    spc,               \* where start() is suspended
    response,          \* what GET returned: "none", "400" or "stream"
    requestUrl,        \* the url parameter of the request GET handled
    transport,         \* the ReadableStream: "open", "closed" or "cancelled"
    closeCalls,        \* controller.close() calls made
    dropped,           \* history: send/closeStream calls that found isClosed set
    isClosed,
    events,            \* events enqueued on the stream, in order
    videoTitle,
    artist,
    trackTitle,
    uploader,
    enrichments,       \* arguments of the enrichMetadata calls made, in order
    enrichmentPromise, \* index into enrichments (0: the pre-resolved promise)
    cobaltFailed,
    downloadMethod,
    fileExists,        \* existsSync(actualFilePath)
    tokenArgs,         \* were --extractor-args pushed
    args,              \* the argument list ytDlp.exec was called with (<<>>: not yet)
    tokenMissing,      \* history: fetchPoToken resolved to null
    tagWrite,          \* history: how the ID3 write went ("none": not yet tried)
    errorMessage,      \* ERROR: text accumulated from the process's stderr
    procEvents,        \* fallback-process events received
    progressReports,   \* primary progress callbacks received
    primary,           \* history: how the primary attempt ended (<<>>: not yet)
    fallbackStarted    \* history: the fallback branch (lines 297-441) was entered

streamVars ==
    <<spc, response, requestUrl, transport, closeCalls, dropped, isClosed, events, videoTitle,
      artist, trackTitle, uploader, enrichments, enrichmentPromise, cobaltFailed,
      downloadMethod, fileExists, tokenArgs, args, tokenMissing, tagWrite, errorMessage, procEvents,
      progressReports, primary, fallbackStarted>>

\* Error text is a sequence of fragments; a fragment records which of the
\* substrings the controller tests for it contains (after lower-casing for
\* parseYtDlpError's needles, verbatim for "ERROR:").
Fragment(text, contains) == [text |-> text, contains |-> contains]

BotCheckText ==
    Fragment("ERROR: Sign in to confirm you're not a bot",
             {"ERROR:", "sign in to confirm you're not a bot"})
UnavailableText ==
    Fragment("ERROR: Video unavailable. This video is private",
             {"ERROR:", "video unavailable", "private"})
PrivateText == Fragment("ERROR: Private video", {"ERROR:", "private"})
AgeText ==
    Fragment("ERROR: Sign in to confirm your age. This video may be inappropriate",
             {"ERROR:", "confirm your age"})
CopyrightText ==
    Fragment("ERROR: Video blocked on copyright grounds", {"ERROR:", "copyright"})
WarningText == Fragment("WARNING: unable to extract uploader", {})
SpawnText == Fragment("spawn yt-dlp ENOENT", {})
ExitText == Fragment("Process exited with code 1", {})
BinaryText == Fragment("Failed to download yt-dlp binary", {})
FsText == Fragment("ENOENT: no such file or directory", {})
ClosedText == Fragment("Invalid state: Controller is already closed", {})
TagText == Fragment("EACCES: permission denied, open", {})

StderrTexts == {BotCheckText, UnavailableText, PrivateText, WarningText}

includes(message, needle) ==
    \E i \in 1..Len(message) : needle \in message[i].contains

Error(kind, message) == [kind |-> kind, message |-> message]

\* Mutant of parseYtDlpError: the raw text is handed on as it came.
parseYtDlpError_Raw(message) == message[1].text

parseYtDlpError(message) ==
    IF includes(message, "sign in to confirm you're not a bot")
       \/ includes(message, "cookies")
    THEN "This video requires authentication. Please try a different video or try again later."
    ELSE IF includes(message, "video unavailable")
    THEN "This video is unavailable or private."
    ELSE IF includes(message, "age-restricted")
            \/ includes(message, "confirm your age")
            \/ includes(message, "verify your age")
    THEN "This video is age-restricted and cannot be downloaded."
    ELSE IF includes(message, "copyright")
    THEN "This video is blocked due to copyright restrictions."
    ELSE IF includes(message, "private")
    THEN "This video is private and cannot be downloaded."
    ELSE "Download failed. Please try a different video."

\* The events the controller writes.
StatusEvent(message) == [type |-> "status", message |-> message]
InfoEvent(title, a, track) ==
    [type |-> "info", title |-> title, artist |-> a, track |-> track]
ProgressEvent(percent) == [type |-> "progress", percent |-> percent]
MetadataEvent(hasArtwork) == [type |-> "metadata", hasArtwork |-> hasArtwork]
ErrorEvent(message) == [type |-> "error", message |-> message]
\* Mutant of CompleteEvent: the event always names the fallback tool.
CompleteEvent_AlwaysFallback(filename, method) ==
    [type |-> "complete", filename |-> filename, downloadMethod |-> "yt-dlp"]

CompleteEvent(filename, method) ==
    [type |-> "complete", filename |-> filename, downloadMethod |-> method]
ToolEvent(eventType) == [type |-> "event", eventType |-> eventType]

\* The stream after `send` is called for each event of evs in turn, from
\* the state s = [events, isClosed, transport, closeCalls, dropped].  An
\* enqueue on a stream that is no longer open throws, which send catches by
\* marking the stream closed.
RECURSIVE send(_, _)
send(s, evs) ==
    IF evs = <<>> THEN s
    ELSE IF s.isClosed THEN send([s EXCEPT !.dropped = @ + 1], Tail(evs))
    ELSE IF s.transport = "open"
    THEN send([s EXCEPT !.events = Append(@, Head(evs))], Tail(evs))
    ELSE send([s EXCEPT !.isClosed = TRUE], Tail(evs))

\* Mutant of closeStream: controller.close() is called whatever isClosed says.
\* A close on a stream that is not open throws and is caught.
closeStream_Unguarded(s) ==
    [s EXCEPT !.isClosed = TRUE,
              !.transport = IF @ = "open" THEN "closed" ELSE @,
              !.closeCalls = @ + 1]

closeStream(s) ==
    IF s.isClosed THEN [s EXCEPT !.dropped = @ + 1] ELSE closeStream_Unguarded(s)

Stream == [events |-> events, isClosed |-> isClosed, transport |-> transport,
           closeCalls |-> closeCalls, dropped |-> dropped]

\* The stream variables take the values of s.
StreamBecomes(s) ==
    /\ events' = s.events
    /\ isClosed' = s.isClosed
    /\ transport' = s.transport
    /\ closeCalls' = s.closeCalls
    /\ dropped' = s.dropped

\* The outer catch (lines 582-610), entered with the stream in state s.
OuterCatch(s, error) ==
    /\ StreamBecomes(closeStream(send(s, <<ErrorEvent(parseYtDlpError(error.message))>>)))
    /\ spc' = "done"

StreamStart(resp) ==
    /\ spc = "idle"
    /\ response = resp
    /\ requestUrl = <<>>
    /\ transport = "open"
    /\ closeCalls = 0
    /\ dropped = 0
    /\ isClosed = FALSE
    /\ events = <<>>
    /\ videoTitle = ""
    /\ artist = ""
    /\ trackTitle = ""
    /\ uploader = ""
    /\ enrichments = <<>>
    /\ enrichmentPromise = 0
    /\ cobaltFailed = FALSE
    /\ downloadMethod = "yt-dlp"
    /\ fileExists = FALSE
    /\ tokenArgs = FALSE
    /\ args = <<>>
    /\ tokenMissing = FALSE
    /\ tagWrite = "none"
    /\ errorMessage = <<>>
    /\ procEvents = 0
    /\ progressReports = 0
    /\ primary = <<>>
    /\ fallbackStarted = FALSE

StreamInit == StreamStart("none")

\* Values of the url query parameter (<<>>: absent).
PlaylistUrl == "https://youtube.com/playlist?list=PLtest123"

RequestUrls ==
    {<<>>, <<"https://example.com/watch">>, <<"https://youtu.be/dQw4w9WgXcQ">>,
     <<PlaylistUrl>>}

extractVideoId(url) ==
    IF url = "https://youtu.be/dQw4w9WgXcQ" THEN <<"dQw4w9WgXcQ">> ELSE <<>>

\* GET up to the first await of start(): 400 for a missing or unusable url,
\* else the stream is opened and the first status event written.
GET(videoUrl) ==
    /\ spc = "idle" /\ response = "none"
    /\ requestUrl' = videoUrl
    /\ IF videoUrl = <<>> \/ extractVideoId(videoUrl[1]) = <<>>
       THEN /\ response' = "400"
            /\ UNCHANGED <<spc, transport, closeCalls, dropped, isClosed, events>>
       ELSE /\ response' = "stream"
            /\ spc' = "metadata"
            /\ StreamBecomes(send(Stream, <<StatusEvent("Getting video info...")>>))
    /\ UNCHANGED <<videoTitle, artist, trackTitle, uploader, enrichments,
                   enrichmentPromise, cobaltFailed, downloadMethod, fileExists,
                   tokenArgs, args, tokenMissing, tagWrite, errorMessage, procEvents, progressReports, primary,
                   fallbackStarted>>

\* The client goes away: from now on enqueue and close throw.
PeerCancel ==
    /\ response = "stream"
    /\ transport = "open"
    /\ transport' = "cancelled"
    /\ UNCHANGED <<spc, response, requestUrl, closeCalls, dropped, isClosed, events, videoTitle, artist,
                   trackTitle, uploader, enrichments, enrichmentPromise, cobaltFailed,
                   downloadMethod, fileExists, tokenArgs, args, tokenMissing, tagWrite, errorMessage, procEvents,
                   progressReports, primary, fallbackStarted>>

\* How fetchYouTubeMetadata may settle.
MetadataOutcomes ==
    {[kind |-> "ok", videoTitle |-> "Artist - Song", artist |-> "Artist",
      trackTitle |-> "Song", uploader |-> "Channel"],
     [kind |-> "ok", videoTitle |-> "", artist |-> "", trackTitle |-> "",
      uploader |-> "NA"],
     [kind |-> "YouTubeMetadataError", isUnavailable |-> TRUE],
     [kind |-> "YouTubeMetadataError", isUnavailable |-> FALSE]}

\* Lines 184-235: the metadata lookup settles; enrichment is started and the
\* primary request issued, unless the video is reported unavailable.
MetadataSettles(m) ==
    /\ spc = "metadata"
    /\ IF m.kind # "ok" /\ m.isUnavailable
       THEN /\ StreamBecomes(closeStream(send(Stream,
                   <<ErrorEvent("Video not found or unavailable")>>)))
            /\ spc' = "done"
            /\ UNCHANGED <<videoTitle, artist, trackTitle, uploader, enrichments,
                           enrichmentPromise>>
       ELSE LET a == IF m.kind = "ok" THEN m.artist ELSE ""
                t == IF m.kind = "ok" THEN m.trackTitle ELSE ""
                info == IF m.kind = "ok"
                        THEN <<InfoEvent(m.videoTitle, m.artist, m.trackTitle)>>
                        ELSE <<>>
            IN  /\ videoTitle' = IF m.kind = "ok" THEN m.videoTitle ELSE ""
                /\ artist' = a
                /\ trackTitle' = t
                /\ uploader' = IF m.kind = "ok" THEN m.uploader ELSE ""
                /\ enrichments' =
                       Append(enrichments,
                              IF a # "" /\ t # ""
                              THEN [artist |-> a, title |-> t]
                              ELSE [artist |-> "", title |-> ""])
                /\ enrichmentPromise' = Len(enrichments) + 1
                /\ StreamBecomes(send(Stream,
                       info \o <<StatusEvent("Trying fast download...")>>))
                /\ spc' = "request"
    /\ UNCHANGED <<response, requestUrl, cobaltFailed, downloadMethod, fileExists, tokenArgs, args, tokenMissing, tagWrite,
                   errorMessage, procEvents, progressReports, primary,
                   fallbackStarted>>

\* `catch (err)` at line 284 takes every error of the primary attempt.
PrimaryCaught_CobaltErrorOnly(err) == err.kind = "CobaltError"

PrimaryCaught(err) == TRUE

\* Mutant of FallbackNotice: the caught error's message is sent on.
FallbackNotice_Surfaced(err) == <<ErrorEvent(err.message)>>

\* What the client is told when the fallback begins (line 298); the caught
\* error goes to the log only.
FallbackNotice(err) == <<StatusEvent("Starting download...")>>

\* The primary attempt threw err with the stream in state s: lines 284-300.
PrimaryFails(s, err) ==
    /\ primary' = <<err>>
    /\ IF PrimaryCaught(err)
       THEN /\ cobaltFailed' = TRUE
            /\ fallbackStarted' = TRUE
            /\ StreamBecomes(send(s, FallbackNotice(err)))
            /\ spc' = "getYTDlp"
       ELSE /\ OuterCatch(s, Error(err.kind, <<Fragment(err.message, {})>>))
            /\ UNCHANGED <<cobaltFailed, fallbackStarted>>

\* How requestCobaltAudio may settle.
RequestOutcomes ==
    {Returned(1),
     Rejected("CobaltError", "Cobalt rate limit exceeded"),
     Rejected("CobaltError", "This video is unavailable or cannot be downloaded"),
     Rejected("CobaltError", "Cobalt request timed out")}

RequestSettles(r) ==
    /\ spc = "request"
    /\ IF r.kind = "ok"
       THEN /\ StreamBecomes(send(Stream, <<ProgressEvent(5)>>))
            /\ spc' = "download"
            /\ UNCHANGED <<primary, cobaltFailed, fallbackStarted>>
       ELSE PrimaryFails(Stream, r)
    /\ UNCHANGED <<response, requestUrl, videoTitle, artist, trackTitle, uploader, enrichments,
                   enrichmentPromise, downloadMethod, fileExists, tokenArgs, args, tokenMissing, tagWrite,
                   errorMessage, procEvents, progressReports>>

Round(num, den) == (2 * num + den) \div (2 * den)

\* Progress reports of fetchCobaltAudio: percent in hundredths, totalBytes
\* <<>> when the response had no content-length.
ProgressReports ==
    {[bytesReceived |-> 1, totalBytes |-> <<3>>, percent |-> 3333],
     [bytesReceived |-> 9, totalBytes |-> <<>>, percent |-> 0]}

\* Math.round(5 + Math.min(70, Math.log10(1 + bytesReceived) * 10)) for the
\* byte counts of ProgressReports.
PseudoPercent(received) ==
    CASE received = 9 -> 15
      [] received = 1 -> 8

\* The onProgress callback of lines 246-266.  The status message carries the
\* byte count as rendered by formatBytes.
DownloadProgress(p) ==
    /\ spc = "download"
    /\ progressReports < MaxProgressReports
    /\ progressReports' = progressReports + 1
    /\ StreamBecomes(send(Stream,
           IF p.totalBytes # <<>> /\ p.totalBytes[1] # 0
           THEN <<ProgressEvent(Round(50000 + p.percent * 70, 10000))>>
           ELSE <<ProgressEvent(PseudoPercent(p.bytesReceived)),
                  StatusEvent("Downloading...")>>))
    /\ UNCHANGED <<spc, response, requestUrl, videoTitle, artist, trackTitle, uploader,
                   enrichments, enrichmentPromise, cobaltFailed, downloadMethod,
                   fileExists, tokenArgs, args, tokenMissing, tagWrite, errorMessage, procEvents, primary,
                   fallbackStarted>>

\* How fetchCobaltAudio may settle.
DownloadOutcomes ==
    {Returned(0), Returned(3),
     Rejected("TypeError", "Invalid URL"),
     Rejected("CobaltError", "Redirect to disallowed URL blocked"),
     Rejected("CobaltError", "Cobalt download timed out")}

EmptyContent ==
    Rejected("CobaltError", "Cobalt returned empty content (video may be blocked)")

WriteFailure == Rejected("Error", "ENOSPC: no space left on device, write")

\* Lines 443-457 when the audio file exists.
FileReady(s) ==
    /\ StreamBecomes(send(s, <<ProgressEvent(78),
                               StatusEvent("Processing metadata...")>>))
    /\ spc' = "enrichment"

\* Lines 268-283: the primary download settles; written is whether
\* writeFileSync returned.
DownloadSettles(r, written) ==
    /\ spc = "download"
    /\ IF r.kind # "ok"
       THEN /\ PrimaryFails(Stream, r)
            /\ UNCHANGED <<downloadMethod, fileExists>>
       ELSE IF r.byteLength = 0
       THEN /\ PrimaryFails(Stream, EmptyContent)
            /\ UNCHANGED <<downloadMethod, fileExists>>
       ELSE IF ~written
       THEN /\ PrimaryFails(send(Stream, <<ProgressEvent(75)>>), WriteFailure)
            /\ UNCHANGED <<downloadMethod, fileExists>>
       ELSE /\ primary' = <<r>>
            /\ downloadMethod' = "cobalt"
            /\ fileExists' = TRUE
            /\ FileReady(send(Stream, <<ProgressEvent(75)>>))
            /\ UNCHANGED <<cobaltFailed, fallbackStarted>>
    /\ UNCHANGED <<response, requestUrl, videoTitle, artist, trackTitle, uploader, enrichments,
                   enrichmentPromise, tokenArgs, args, tokenMissing, tagWrite, errorMessage, procEvents,
                   progressReports>>

\* getYTDlp settles: with the wrapper, or with the binary's download error.
GetYTDlpSettles(ok) ==
    /\ spc = "getYTDlp"
    /\ IF ok
       THEN /\ spc' = "token"
            /\ UNCHANGED <<transport, closeCalls, dropped, isClosed, events>>
       ELSE OuterCatch(Stream, Error("Error", <<BinaryText>>))
    /\ UNCHANGED <<response, requestUrl, videoTitle, artist, trackTitle, uploader, enrichments,
                   enrichmentPromise, cobaltFailed, downloadMethod, fileExists,
                   tokenArgs, args, tokenMissing, tagWrite, errorMessage, procEvents, progressReports, primary,
                   fallbackStarted>>

UpperCase ==
    {"A", "B", "C", "D", "E", "F", "G", "H", "I", "J", "K", "L", "M",
     "N", "O", "P", "Q", "R", "S", "T", "U", "V", "W", "X", "Y", "Z"}
LowerCase ==
    {"a", "b", "c", "d", "e", "f", "g", "h", "i", "j", "k", "l", "m",
     "n", "o", "p", "q", "r", "s", "t", "u", "v", "w", "x", "y", "z"}

\* Mutant of safeTokenChars: any text that is not empty passes.
safeTokenChars_NonEmpty(str) ==
    str # <<>>

\* /^[A-Za-z0-9._\-+/=%]+$/ over a string given as its characters.
safeTokenChars(str) ==
    /\ str # <<>>
    /\ \A i \in 1..Len(str) :
           str[i] \in UpperCase \cup LowerCase \cup Digits
                      \cup {".", "_", "-", "+", "/", "=", "%"}

\* What fetchPoToken may resolve to (<<>>: null).
TokenResults ==
    {<<>>,
     <<[poToken |-> <<"M", "n", "=", "=">>, visitorData |-> <<"C", "g", "%", "3", "D">>]>>,
     <<[poToken |-> <<"a", ";", "b">>, visitorData |-> <<"C", "g">>]>>,
     <<[poToken |-> <<"M", "n">>, visitorData |-> <<"x", " ", "-", "-", "e", "x", "e", "c">>]>>}

\* Lines 303-323: the argument list before the token is looked at; every
\* argument is a sequence of text fragments.
BaseArgs ==
    <<<<"videoUrl">>, <<"-x">>, <<"--audio-format">>, <<"mp3">>,
      <<"--audio-quality">>, <<"0">>, <<"--embed-thumbnail">>,
      <<"--add-metadata">>, <<"--ffmpeg-location">>, <<"ffmpegInstaller.path">>,
      <<"--newline">>, <<"--no-warnings">>,
      <<"--parse-metadata">>, <<"%(title)s:%(meta_title)s">>,
      <<"--parse-metadata">>, <<"%(artist)s:%(meta_artist)s">>,
      <<"--no-playlist">>, <<"-o">>, <<"outputPath", ".%(ext)s">>>>

\* `youtube:po_token=web+${poToken};visitor_data=${visitorData}`
ExtractorArgs(token) ==
    <<"youtube:po_token=web+">> \o token.poToken
        \o <<";visitor_data=">> \o token.visitorData

\* Mutant of TokenArgsPushed: the arguments are pushed without the tests.
TokenArgsPushed_Untested(tokenResult) == TRUE

\* Lines 326-341: the token arguments are pushed when there is a token and
\* both of its parts are made of safe characters only.
TokenArgsPushed(tokenResult) ==
    /\ tokenResult # <<>>
    /\ safeTokenChars(tokenResult[1].poToken)
    /\ safeTokenChars(tokenResult[1].visitorData)

\* Lines 325-343: the token arrives and the process is started.
TokenSettles(tokenResult) ==
    /\ spc = "token"
    /\ tokenArgs' = TokenArgsPushed(tokenResult)
    /\ args' = IF tokenResult # <<>> /\ TokenArgsPushed(tokenResult)
               THEN BaseArgs \o <<<<"--extractor-args">>, ExtractorArgs(tokenResult[1])>>
               ELSE BaseArgs
    /\ tokenMissing' = (tokenResult = <<>>)
    /\ spc' = "process"
    /\ UNCHANGED <<response, requestUrl, transport, closeCalls, dropped, isClosed, events, videoTitle,
                   artist, trackTitle, uploader, enrichments, enrichmentPromise,
                   cobaltFailed, downloadMethod, fileExists, tagWrite, errorMessage,
                   procEvents, progressReports, primary, fallbackStarted>>

\* Math.min(100, Math.max(0, percent || 0)).
Clamp(percent) ==
    IF percent < 0 THEN 0 ELSE IF percent > 100 THEN 100 ELSE percent

\* "progress" from the fallback process (lines 345-359).
ProcProgress(percent) ==
    /\ spc = "process"
    /\ procEvents' = procEvents + 1
    /\ StreamBecomes(send(Stream,
           <<ProgressEvent(Round(500 + Clamp(percent) * 70, 100))>>))
    /\ UNCHANGED <<spc, response, requestUrl, videoTitle, artist, trackTitle, uploader,
                   enrichments, enrichmentPromise, cobaltFailed, downloadMethod,
                   fileExists, tokenArgs, args, tokenMissing, tagWrite, errorMessage, progressReports, primary,
                   fallbackStarted>>

\* parseArtistAndTitle over the titles the model uses.
parseArtistAndTitle(title) ==
    IF title = "Artist - Song"
    THEN [artist |-> "Artist", title |-> "Song"]
    ELSE [artist |-> "", title |-> title]

sanitizeUploaderAsArtist(name) ==
    IF name = "NA" THEN "" ELSE name

\* Tool events: the event type and the title its data yields to the
\* handler's regular expressions (<<>>: none).
ToolReports ==
    {[eventType |-> "download", title |-> <<>>],
     [eventType |-> "Destination", title |-> <<"Artist - Song">>],
     [eventType |-> "ExtractAudio", title |-> <<"Song">>]}

\* Mutant of TitleMissing: every event that carries a title is parsed.
TitleMissing_Always == TRUE

\* `if (!videoTitle)` of the ytDlpEvent handler.
TitleMissing == videoTitle = ""

\* "ytDlpEvent" from the fallback process (lines 361-410).
ProcYtDlpEvent(report) ==
    /\ spc = "process"
    /\ procEvents' = procEvents + 1
    /\ IF TitleMissing /\ report.title # <<>>
       THEN LET parsed == parseArtistAndTitle(report.title[1])
                a == IF parsed.artist = "" /\ uploader # ""
                     THEN sanitizeUploaderAsArtist(uploader)
                     ELSE parsed.artist
            IN  /\ videoTitle' = report.title[1]
                /\ artist' = a
                /\ trackTitle' = parsed.title
                /\ IF a # "" /\ parsed.title # ""
                   THEN /\ enrichments' =
                               Append(enrichments, [artist |-> a, title |-> parsed.title])
                        /\ enrichmentPromise' = Len(enrichments) + 1
                   ELSE UNCHANGED <<enrichments, enrichmentPromise>>
                /\ StreamBecomes(send(Stream,
                       <<InfoEvent(report.title[1], a, parsed.title),
                         ToolEvent(report.eventType)>>))
       ELSE /\ StreamBecomes(send(Stream, <<ToolEvent(report.eventType)>>))
            /\ UNCHANGED <<videoTitle, artist, trackTitle, enrichments,
                           enrichmentPromise>>
    /\ UNCHANGED <<spc, response, requestUrl, uploader, cobaltFailed, downloadMethod, fileExists,
                   tokenArgs, args, tokenMissing, tagWrite, errorMessage, progressReports, primary,
                   fallbackStarted>>

\* Data on the process's stderr (lines 412-419).
ProcStderr(text) ==
    /\ spc = "process"
    /\ procEvents' = procEvents + 1
    /\ errorMessage' = IF "ERROR:" \in text.contains
                       THEN Append(errorMessage, text)
                       ELSE errorMessage
    /\ UNCHANGED <<spc, response, requestUrl, transport, closeCalls, dropped, isClosed, events,
                   videoTitle, artist, trackTitle, uploader, enrichments,
                   enrichmentPromise, cobaltFailed, downloadMethod, fileExists,
                   tokenArgs, args, tokenMissing, tagWrite, progressReports, primary, fallbackStarted>>

\* "error" from the fallback process: the listener of lines 421-424 sends an
\* error event, then the listener of line 436 rejects the awaited promise
\* and start() resumes in the outer catch.
ProcError(error) ==
    /\ spc = "process"
    /\ OuterCatch(send(Stream, <<ErrorEvent(parseYtDlpError(error.message))>>), error)
    /\ UNCHANGED <<response, requestUrl, videoTitle, artist, trackTitle, uploader, enrichments,
                   enrichmentPromise, cobaltFailed, downloadMethod, fileExists,
                   tokenArgs, args, tokenMissing, tagWrite, errorMessage, procEvents, progressReports, primary,
                   fallbackStarted>>

\* "close" from the fallback process (lines 426-450); exists is whether the
\* tool left the mp3 behind.
ProcClose(code, exists) ==
    /\ spc = "process"
    /\ IF code # 0
       THEN /\ OuterCatch(Stream,
                   Error("Error", IF errorMessage # <<>> THEN errorMessage
                                  ELSE <<ExitText>>))
            /\ UNCHANGED fileExists
       ELSE /\ fileExists' = exists
            /\ IF exists
               THEN FileReady(Stream)
               ELSE LET s == send(Stream,
                                  <<ErrorEvent("Download completed but file not found")>>)
                        c == [s EXCEPT !.closeCalls = @ + 1]
                    IN  IF s.transport = "open"
                        THEN /\ StreamBecomes([c EXCEPT !.transport = "closed"])
                             /\ spc' = "done"
                        ELSE OuterCatch(c, Error("TypeError", <<ClosedText>>))
    /\ UNCHANGED <<response, requestUrl, videoTitle, artist, trackTitle, uploader, enrichments,
                   enrichmentPromise, cobaltFailed, downloadMethod, tokenArgs, args, tokenMissing, tagWrite,
                   errorMessage, procEvents, progressReports, primary,
                   fallbackStarted>>

\* What the awaited enrichment resolves to: is there metadata, is there artwork.
EnrichmentResults ==
    {[metadata |-> FALSE, artwork |-> FALSE],
     [metadata |-> FALSE, artwork |-> TRUE],
     [metadata |-> TRUE, artwork |-> TRUE]}

TaggingOutcomes == {"written", "not written", "threw"}

\* Mutant of TaggingCaught: what the tagging throws leaves the try.
TaggingCaught_Rethrown(tagging) == tagging # "threw"

\* The try of lines 477-533 takes whatever the tagging throws; a result
\* other than true is reported to the log inside it (510-520).
TaggingCaught(tagging) == TRUE

\* Lines 459-538: the enrichment is awaited, the file tagged (whatever
\* becomes of the tagging) and the file's size asked for.
EnrichmentSettles(enrichment, tagging) ==
    /\ spc = "enrichment"
    /\ tagWrite' = tagging
    /\ LET s == send(Stream,
                     IF enrichment.metadata THEN <<MetadataEvent(enrichment.artwork)>>
                     ELSE <<>>)
       IN  IF TaggingCaught(tagging)
           THEN /\ StreamBecomes(send(s, <<ProgressEvent(85),
                                           StatusEvent("Preparing download...")>>))
                /\ spc' = "stat"
           ELSE OuterCatch(s, Error("Error", <<TagText>>))
    /\ UNCHANGED <<response, requestUrl, videoTitle, artist, trackTitle, uploader, enrichments,
                   enrichmentPromise, cobaltFailed, downloadMethod, fileExists,
                   tokenArgs, args, tokenMissing, errorMessage, procEvents, progressReports,
                   primary, fallbackStarted>>

\* fs.stat settles (line 539).
StatSettles(ok) ==
    /\ spc = "stat"
    /\ IF ok
       THEN /\ StreamBecomes(send(Stream, <<ProgressEvent(88)>>))
            /\ spc' = "read"
       ELSE OuterCatch(Stream, Error("Error", <<FsText>>))
    /\ UNCHANGED <<response, requestUrl, videoTitle, artist, trackTitle, uploader, enrichments,
                   enrichmentPromise, cobaltFailed, downloadMethod, fileExists,
                   tokenArgs, args, tokenMissing, tagWrite, errorMessage, procEvents, progressReports, primary,
                   fallbackStarted>>

\* Lines 548-565 over the names the model uses, none of which holds a
\* character the replacements touch.
finalFilename ==
    IF artist # "" /\ trackTitle # "" THEN artist \o " - " \o trackTitle \o ".mp3"
    ELSE IF videoTitle # "" THEN videoTitle \o ".mp3"
    ELSE "audio.mp3"

\* fs.readFile settles (lines 543-581).
ReadSettles(ok) ==
    /\ spc = "read"
    /\ IF ok
       THEN /\ StreamBecomes(closeStream(send(Stream,
                   <<ProgressEvent(95), CompleteEvent(finalFilename, downloadMethod)>>)))
            /\ spc' = "done"
       ELSE OuterCatch(Stream, Error("Error", <<FsText>>))
    /\ UNCHANGED <<response, requestUrl, videoTitle, artist, trackTitle, uploader, enrichments,
                   enrichmentPromise, cobaltFailed, downloadMethod, fileExists,
                   tokenArgs, args, tokenMissing, tagWrite, errorMessage, procEvents, progressReports, primary,
                   fallbackStarted>>

(***************************************************************************)
(* Part 4.  Metadata enrichment                                            *)
(*   enrichMetadata (src/src/routes/api/download-stream/+server.ts         *)
(*   107-128), lookupTrack with its tag and label lookups                  *)
(*   (src/unnamed/part_003 153-259), fetchCoverArt and fetchThumbnailArt   *)
(*   (src/src/lib/musicbrainz.ts 108-165).                                 *)
(***************************************************************************)

MaxReleases == 2
MaxTags == 2

\* A release as the provider returns it: date and track number may be
\* absent (<<>>), primaryType is "" when the release group names none.
Release(id, title, date, primaryType, number) ==
    [id |-> id, title |-> title, date |-> date, primaryType |-> primaryType,
     number |-> number]

ReleasePool ==
    {Release("a1", "Long Player", <<"2", "0", "1", "9", "-", "0", "5", "-", "1", "7">>,
             "Album", <<"3">>),
     Release("a2", "Greatest Hits", <<"2", "0", "2", "1">>, "Album", <<>>),
     Release("s1", "The Single", <<"1", "9", "9", "8", "-", "1", "1">>, "Single", <<"1">>),
     Release("e1", "Promo", <<>>, "", <<>>)}

SeqsUpTo(S, n) == UNION {[1..k -> S] : k \in 0..n}

ReleaseLists == SeqsUpTo(ReleasePool, MaxReleases)

Tag(name, count) == [name |-> name, count |-> count]

TagPool == {Tag("rock", 2), Tag("pop", 2), Tag("jazz", 1)}

TagLists == SeqsUpTo(TagPool, MaxTags)

\* releases.find(r => r["release-group"]?.["primary-type"] === "Album"):
\* the index of the first match, 0 when there is none.
RECURSIVE findAlbum(_, _)
findAlbum(releases, i) ==
    IF i > Len(releases) THEN 0
    ELSE IF releases[i].primaryType = "Album" THEN i
    ELSE findAlbum(releases, i + 1)

\* Mutant of pickBestRelease: the first release is taken whatever its type.
pickBestRelease_First(releases) == releases[1]

pickBestRelease(releases) ==
    LET album == findAlbum(releases, 1)
    IN  IF album # 0 THEN releases[album] ELSE releases[1]

\* Mutant of extractGenre's reduction: a tag that equals the best replaces it.
RECURSIVE reduceBest_LastWins(_, _, _)
reduceBest_LastWins(tags, i, best) ==
    IF i > Len(tags) THEN best
    ELSE reduceBest_LastWins(tags, i + 1,
                             IF tags[i].count >= best.count THEN tags[i] ELSE best)

\* tags.reduce((best, tag) => (tag.count > best.count ? tag : best)) from
\* the accumulator best over the tags from index i on.
RECURSIVE reduceBest(_, _, _)
reduceBest(tags, i, best) ==
    IF i > Len(tags) THEN best
    ELSE reduceBest(tags, i + 1, IF tags[i].count > best.count THEN tags[i] ELSE best)

\* extractGenre; tags is <<>> both for an absent and for an empty list.
extractGenre(tags) ==
    IF tags = <<>> THEN "" ELSE reduceBest(tags, 2, tags[1]).name

\* date?.slice(0, 4) ?? "" over a date given as its characters.
Year(date) == SubSeq(date, 1, IF Len(date) < 4 THEN Len(date) ELSE 4)

\* How a fetch and the reading of its body may end.  "rejected" (network
\* failure), "aborted" (the timeout fired) and "badBody" (json() or
\* arrayBuffer() threw) are exceptions; "notOk" is a response with !ok.
FetchFailures ==
    {[kind |-> k] : k \in {"rejected", "aborted", "badBody", "notOk"}}

Thrown(o) == o.kind \in {"rejected", "aborted", "badBody"}

\* Bodies of the recording search: recordings absent or empty, or a first
\* recording with an id (possibly absent: "") and releases (absent or empty: <<>>).
SearchResults ==
    {[kind |-> "ok", recordings |-> 0, id |-> "", releases |-> <<>>]}
    \cup {[kind |-> "ok", recordings |-> 1, id |-> i, releases |-> rs] :
              i \in {"", "rec1"}, rs \in ReleaseLists}

TagResults == {[kind |-> "ok", tags |-> ts] : ts \in TagLists}

LabelResults == {[kind |-> "ok", label |-> l] : l \in {"", "Warp"}}

ArtResults == {[kind |-> "ok", mime |-> "image/jpeg"]}

\* What enrichMetadata is called with.
Queries ==
    {[artist |-> a, title |-> t, videoId |-> v] :
         a \in {"", "Artist"}, t \in {"", "Song"}, v \in {"", "dQw4w9WgXcQ"}}

VARIABLES
    epc,        \* where enrichMetadata stands
    query,      \* its arguments
    releases,   \* history: the releases of the first recording found
    release,    \* lookupTrack: release (<<>>: none picked)
    tagsP,      \* the tag lookup: <<>> pending or not made, else <<tags>>
    labelP,     \* the label lookup: <<>> pending, else <<label>>
    metadata,   \* enrichMetadata: metadata (<<>>: null or not yet known)
    artwork,    \* enrichMetadata: artwork (<<>>: null or not yet known)
    settled,    \* how the promise of enrichMetadata settled (<<>>: not yet)
    lookups     \* history: the requests made and how each ended, in order

enrichVars ==
    <<epc, query, releases, release, tagsP, labelP, metadata, artwork, settled, lookups>>

EnrichInit ==
    /\ epc = "idle"
    /\ query = [artist |-> "", title |-> "", videoId |-> ""]
    /\ releases = <<>>
    /\ release = <<>>
    /\ tagsP = <<>>
    /\ labelP = <<>>
    /\ metadata = <<>>
    /\ artwork = <<>>
    /\ settled = <<>>
    /\ lookups = <<>>

Lookup(what, o) == [what |-> what, kind |-> o.kind]

Art(from, mime) == [from |-> from, mime |-> mime]

\* `return { metadata, artwork }` (line 123).
Resolve(md, art) ==
    /\ metadata' = md
    /\ artwork' = art
    /\ settled' = <<[kind |-> "resolved", metadata |-> md, artwork |-> art]>>
    /\ epc' = "resolved"

\* The catch of enrichMetadata (lines 124-127).
EnrichCatch ==
    /\ settled' = <<[kind |-> "resolved", metadata |-> <<>>, artwork |-> <<>>]>>
    /\ epc' = "resolved"
    /\ UNCHANGED <<metadata, artwork>>

\* Mutant of LookupCaught: the lookups' catch takes the abort only.
LookupCaught_AbortOnly(o) == o.kind = "aborted"

\* `catch { return null }` of lookupTrack, fetchCoverArt and
\* fetchThumbnailArt, `catch { return [] }` and `catch { return "" }` of the
\* tag and label lookups: whatever was thrown is taken.
LookupCaught(o) == TRUE

\* Mutant of ThumbnailWanted: the thumbnail is fetched every time.
ThumbnailWanted_Always(art) == TRUE

\* `if (!artwork)` (line 119).
ThumbnailWanted(art) == art = <<>>

\* Lines 119-123 with the metadata md and the cover art so far: the
\* thumbnail is asked for when there is no artwork, unless there is no video
\* id to ask with.
ThenThumbnail(md, art) ==
    IF ThumbnailWanted(art) /\ query.videoId # ""
    THEN /\ metadata' = md
         /\ artwork' = art
         /\ epc' = "thumbnail"
         /\ UNCHANGED settled
    ELSE Resolve(md, art)

\* Lines 114-118 once lookupTrack has returned md: the cover art is asked
\* for when there is a release id.
ThenCoverArt(md) ==
    IF md # <<>> /\ md[1].releaseId # ""
    THEN /\ metadata' = md
         /\ epc' = "coverArt"
         /\ UNCHANGED <<artwork, settled>>
    ELSE ThenThumbnail(md, <<>>)

\* enrichMetadata is called: lookupTrack returns null at once without an
\* artist or a title, else the recording search is sent.
enrichMetadata(q) ==
    /\ epc = "idle"
    /\ query' = q
    /\ IF q.artist = "" \/ q.title = ""
       THEN IF q.videoId # ""
            THEN /\ epc' = "thumbnail"
                 /\ UNCHANGED <<metadata, artwork, settled>>
            ELSE Resolve(<<>>, <<>>)
       ELSE /\ epc' = "search"
            /\ UNCHANGED <<metadata, artwork, settled>>
    /\ UNCHANGED <<releases, release, tagsP, labelP, lookups>>

\* The record lookupTrack returns (part_003 246-253).
TrackMetadata(r, tags, label) ==
    [album |-> r.title, year |-> Year(r.date), genre |-> extractGenre(tags),
     trackNumber |-> IF r.number = <<>> THEN "" ELSE r.number[1],
     label |-> label, releaseId |-> r.id]

\* The recording search settles (part_003 219-244).
SearchSettles(o) ==
    /\ epc = "search"
    /\ lookups' = Append(lookups, Lookup("search", o))
    /\ IF Thrown(o) /\ ~LookupCaught(o)
       THEN /\ EnrichCatch
            /\ UNCHANGED <<releases, release, tagsP, labelP>>
       ELSE IF o.kind # "ok" \/ o.recordings = 0 \/ o.releases = <<>>
       THEN /\ ThenCoverArt(<<>>)
            /\ UNCHANGED <<releases, release, tagsP, labelP>>
       ELSE /\ releases' = o.releases
            /\ release' = <<pickBestRelease(o.releases)>>
            /\ tagsP' = IF o.id # "" THEN <<>> ELSE <<(<<>>)>>
            /\ labelP' = <<>>
            /\ epc' = "sublookups"
            /\ UNCHANGED <<metadata, artwork, settled>>
    /\ UNCHANGED query

\* Mutant of SubLookupCaught: the tag and label lookups catch nothing.
SubLookupCaught_Nothing(o) == FALSE

\* `catch { return [] }` (part_003 182-184) and `catch { return "" }`
\* (200-202) take whatever the tag and the label lookup throw.
SubLookupCaught(o) == TRUE

\* What leaves a sub-lookup rejects Promise.all and lands in lookupTrack's
\* own catch (part_003 254-255), which returns null.
SubLookupEscapes(o) ==
    IF LookupCaught(o) THEN ThenCoverArt(<<>>) ELSE EnrichCatch

\* fetchRecordingTags settles (part_003 169-185).
TagsSettle(o) ==
    /\ epc = "sublookups"
    /\ tagsP = <<>>
    /\ lookups' = Append(lookups, Lookup("tags", o))
    /\ IF Thrown(o) /\ ~SubLookupCaught(o)
       THEN /\ SubLookupEscapes(o)
            /\ UNCHANGED tagsP
       ELSE /\ tagsP' = <<IF o.kind = "ok" THEN o.tags ELSE <<>> >>
            /\ UNCHANGED <<epc, metadata, artwork, settled>>
    /\ UNCHANGED <<query, releases, release, labelP>>

\* fetchReleaseLabels settles (part_003 187-203).
LabelsSettle(o) ==
    /\ epc = "sublookups"
    /\ labelP = <<>>
    /\ lookups' = Append(lookups, Lookup("labels", o))
    /\ IF Thrown(o) /\ ~SubLookupCaught(o)
       THEN /\ SubLookupEscapes(o)
            /\ UNCHANGED labelP
       ELSE /\ labelP' = <<IF o.kind = "ok" THEN o.label ELSE "">>
            /\ UNCHANGED <<epc, metadata, artwork, settled>>
    /\ UNCHANGED <<query, releases, release, tagsP>>

\* Promise.all (part_003 239-244) has resolved: lookupTrack returns its
\* record (246-253) and its locals are gone; enrichMetadata goes on.
LookupTrackReturns ==
    /\ epc = "sublookups"
    /\ tagsP # <<>> /\ labelP # <<>>
    /\ ThenCoverArt(<<TrackMetadata(release[1], tagsP[1], labelP[1])>>)
    /\ releases' = <<>>
    /\ release' = <<>>
    /\ tagsP' = <<>>
    /\ labelP' = <<>>
    /\ UNCHANGED <<query, lookups>>

\* fetchCoverArt settles (musicbrainz.ts 108-136).
CoverArtSettles(o) ==
    /\ epc = "coverArt"
    /\ lookups' = Append(lookups, Lookup("coverArt", o))
    /\ IF Thrown(o) /\ ~LookupCaught(o)
       THEN EnrichCatch
       ELSE ThenThumbnail(metadata,
                          IF o.kind = "ok" THEN <<Art("coverArt", o.mime)>> ELSE <<>>)
    /\ UNCHANGED <<query, releases, release, tagsP, labelP>>

\* fetchThumbnailArt settles (musicbrainz.ts 138-165).
ThumbnailSettles(o) ==
    /\ epc = "thumbnail"
    /\ lookups' = Append(lookups, Lookup("thumbnail", o))
    /\ IF Thrown(o) /\ ~LookupCaught(o)
       THEN EnrichCatch
       ELSE Resolve(metadata,
                    IF o.kind = "ok" THEN <<Art("thumbnail", o.mime)>> ELSE artwork)
    /\ UNCHANGED <<query, releases, release, tagsP, labelP>>

(***************************************************************************)
(* Part 5.  The request to the Cobalt API  (src/src/lib/cobalt.ts 134-400) *)
(***************************************************************************)

\* An error code, with the needles of parseErrorCode it contains (and
\* "unavailable", which parseErrorCode does not look for on its own).
Code(text, contains) == [text |-> text, contains |-> contains]

ErrorCodes ==
    {Code(<<"error.api.auth.key.missing">>, {"auth"}),
     Code(<<"error.api.rate_exceeded">>, {"rate"}),
     Code(<<"error.api.content.video.unavailable">>, {"video.unavailable", "unavailable"}),
     Code(<<"error.api.content.unavailable">>, {"content.unavailable", "unavailable"}),
     Code(<<"error.api.content.post.unavailable">>, {"unavailable"}),
     Code(<<"error.api.youtube.login">>, {"youtube.login"}),
     Code(<<"error.api.youtube.token_expired">>, {"youtube.token"}),
     Code(<<"error.api.youtube.bot">>, {"youtube.bot"}),
     Code(<<"error.api.youtube.captcha">>, {"youtube.captcha"}),
     Code(<<"error.api.invalid_body">>, {"invalid_body"}),
     Code(<<"error.api.auth.rate_limited">>, {"auth", "rate"}),
     Code(<<"error.api.fetch.fail">>, {})}

\* `code.includes(needle)`
codeIncludes(code, needle) == needle \in code.contains

\* `http_${response.status}` and `http_${response.status}_parse_error`
HttpCode(status) == Code(<<"http_", status>>, {})
ParseErrorCode(status) == Code(<<"http_", status, "_parse_error">>, {})

CobaltError(message, isRateLimit, isUnavailable, isAuthRequired, errorCode) ==
    [kind |-> "CobaltError", message |-> message, isRateLimit |-> isRateLimit,
     isUnavailable |-> isUnavailable, isAuthRequired |-> isAuthRequired,
     errorCode |-> errorCode]

Parsed(message, isAuth, isRateLimit, isUnavailable) ==
    [message |-> message, isAuth |-> isAuth, isRateLimit |-> isRateLimit,
     isUnavailable |-> isUnavailable]

AuthMessage ==
    <<"Cobalt requires authentication. Set COBALT_API_URL to a self-hosted instance.">>

parseErrorCode(code) ==
    IF codeIncludes(code, "auth")
    THEN Parsed(AuthMessage, TRUE, FALSE, FALSE)
    ELSE IF codeIncludes(code, "rate")
    THEN Parsed(<<"Cobalt rate limit exceeded">>, FALSE, TRUE, FALSE)
    ELSE IF codeIncludes(code, "video.unavailable") \/ codeIncludes(code, "content.unavailable")
    THEN Parsed(<<"This video is unavailable or cannot be downloaded">>, FALSE, FALSE, TRUE)
    ELSE IF codeIncludes(code, "youtube.login") \/ codeIncludes(code, "youtube.token")
    THEN Parsed(<<"YouTube requires authentication. The server may need session tokens configured.">>,
                TRUE, FALSE, FALSE)
    ELSE IF codeIncludes(code, "youtube.bot") \/ codeIncludes(code, "youtube.captcha")
    THEN Parsed(<<"YouTube detected bot activity. Try again later.">>, FALSE, FALSE, TRUE)
    ELSE IF codeIncludes(code, "invalid_body")
    THEN Parsed(<<"Invalid request sent to Cobalt">>, FALSE, FALSE, FALSE)
    ELSE Parsed(<<"Cobalt error: ">> \o code.text, FALSE, FALSE, FALSE)

\* What response.json() yields: no JSON at all, the value null, or an object
\* with a status, a url and (code: <<>> when the error member is missing)
\* an error code.
Body(json, status, url, code) ==
    [json |-> json, status |-> status, url |-> url, code |-> code]

TunnelUrl == "https://cdn.cobalt.tools/tunnel?id=1"

ApiBodies ==
    {Body("unparsable", "", "", <<>>), Body("null", "", "", <<>>),
     Body("object", "tunnel", TunnelUrl, <<>>),
     Body("object", "redirect", TunnelUrl, <<>>),
     Body("object", "picker", "", <<>>),
     Body("object", "error", "", <<>>)}
    \cup {Body("object", "error", "", <<c>>) : c \in ErrorCodes}

ApiStatuses == {200, 400, 401, 403, 404, 429, 500, 503}

\* How the fetch of requestCobaltAudio settles: with a response, with the
\* abort of the timer, or with a network failure.
ApiReplies ==
    {[kind |-> "response", status |-> s, body |-> b] : s \in ApiStatuses, b \in ApiBodies}
    \cup {[kind |-> "AbortError", status |-> 0, body |-> Body("", "", "", <<>>)],
          [kind |-> "TypeError", status |-> 0, body |-> Body("", "", "", <<>>)]}

\* `response.ok`
Ok(status) == status >= 200 /\ status <= 299

\* Mutant of ServerError: every failure status counts.
ServerError_AnyFailure(status) == status >= 400

\* `response.status >= 500`
ServerError(status) == status >= 500

ReturnedUrl(url) == [kind |-> "ok", url |-> url]

\* The try block of requestCobaltAudio (lines 281-322) for a response: what
\* it returns or throws.
TryResponse(status, payload) ==
    IF status = 429
    THEN CobaltError(<<"Cobalt rate limit exceeded">>, TRUE, FALSE, FALSE, <<>>)
    ELSE IF status \in {401, 403}
    THEN CobaltError(AuthMessage, FALSE, FALSE, TRUE, <<>>)
    ELSE IF payload.json = "unparsable"
    THEN CobaltError(<<"Cobalt returned invalid response (status ", status, ")">>,
                     FALSE, ServerError(status), FALSE, <<ParseErrorCode(status)>>)
    ELSE IF payload.json = "null"
    THEN Error("TypeError", <<"Cannot read properties of null (reading 'status')">>)
    ELSE IF ~Ok(status) \/ payload.status = "error"
    THEN IF payload.status = "error" /\ payload.code = <<>>
         THEN Error("TypeError", <<"Cannot read properties of undefined (reading 'code')">>)
         ELSE LET errorCode == IF payload.status = "error" THEN payload.code[1]
                               ELSE HttpCode(status)
                  parsed == parseErrorCode(errorCode)
              IN  CobaltError(parsed.message, parsed.isRateLimit,
                              parsed.isUnavailable \/ ServerError(status),
                              parsed.isAuth, <<errorCode>>)
    ELSE IF payload.status \in {"tunnel", "redirect"}
    THEN ReturnedUrl(payload.url)
    ELSE CobaltError(<<"Unexpected Cobalt response status: ", payload.status>>,
                     FALSE, FALSE, FALSE,
                     <<Code(<<"unexpected_status_", payload.status>>, {})>>)

\* Mutant of RequestCaught: only CobaltErrors are handled.
RequestCaught_Rethrown(error) == error

\* The catch of requestCobaltAudio (lines 323-399).
RequestCaught(error) ==
    IF error.kind = "CobaltError" THEN error
    ELSE IF error.kind = "AbortError"
    THEN CobaltError(<<"Cobalt request timed out">>, FALSE, TRUE, FALSE, <<>>)
    ELSE CobaltError(<<"Cobalt request failed: ">> \o error.message,
                     FALSE, TRUE, FALSE, <<>>)

VARIABLES
    rpc,         \* where requestCobaltAudio stands: "idle", "awaiting", "settled"
    apiReply,    \* history: how its fetch settled (<<>>: not yet)
    apiOutcome   \* what it returned or threw (<<>>: not yet)

requestVars == <<rpc, apiReply, apiOutcome>>

RequestInit ==
    /\ rpc = "idle"
    /\ apiReply = <<>>
    /\ apiOutcome = <<>>

\* requestCobaltAudio up to the await of fetch.
requestCobaltAudio ==
    /\ rpc = "idle"
    /\ rpc' = "awaiting"
    /\ UNCHANGED <<apiReply, apiOutcome>>

\* The fetch settles and requestCobaltAudio runs to its end.
ApiSettles(reply) ==
    /\ rpc = "awaiting"
    /\ rpc' = "settled"
    /\ apiReply' = <<reply>>
    /\ apiOutcome' =
          <<LET tried == IF reply.kind = "response"
                         THEN TryResponse(reply.status, reply.body)
                         ELSE Error(reply.kind,
                                    IF reply.kind = "AbortError"
                                    THEN <<"This operation was aborted">>
                                    ELSE <<"fetch failed">>)
            IN  IF tried.kind = "ok" THEN tried ELSE RequestCaught(tried)>>

(***************************************************************************)
(* Specifications.                                                         *)
(***************************************************************************)

vars == <<tokenVars, fetchVars, streamVars, enrichVars, requestVars>>

\* The token cache on its own, under any interleaving of calls, settlements,
\* timeouts, resets and clock advances.
TokenSpecInit ==
    /\ TokenInit
    /\ FetchInit /\ env = [apiUrl |-> <<>>, tunnelHost |-> <<>>]
    /\ StreamInit
    /\ EnrichInit /\ RequestInit

TokenSpecNext ==
    \/ Tick /\ UNCHANGED <<fetchVars, streamVars, enrichVars, requestVars>>
    \/ clearCache /\ UNCHANGED <<fetchVars, streamVars, enrichVars, requestVars>>
    \/ (\E c \in Callers : fetchPoToken(c)) /\ UNCHANGED <<fetchVars, streamVars, enrichVars, requestVars>>
    \/ (\E g \in generations, o \in GenOutcomes : GenerateSettles(g, o))
          /\ UNCHANGED <<fetchVars, streamVars, enrichVars, requestVars>>
    \/ (\E a \in attempts : GenerationTimeout(a)) /\ UNCHANGED <<fetchVars, streamVars, enrichVars, requestVars>>

TokenSpec == TokenSpecInit /\ [][TokenSpecNext]_vars

\* The token cache with a generator that may never settle: the clock keeps
\* running while a timer is armed, and a timer that is due fires.  Between
\* calls time passes in steps one millisecond short of the backoff window;
\* a generator that settles resolves with a token or rejects.
TimeoutSpecNext ==
    \/ (Tick /\ now' - now = FAILURE_BACKOFF_MS - 1)
          /\ UNCHANGED <<fetchVars, streamVars, enrichVars, requestVars>>
    \/ clearCache /\ UNCHANGED <<fetchVars, streamVars, enrichVars, requestVars>>
    \/ (\E c \in Callers : fetchPoToken(c)) /\ UNCHANGED <<fetchVars, streamVars, enrichVars, requestVars>>
    \/ (\E g \in generations, o \in {"token", "rejected"} : GenerateSettles(g, o))
          /\ UNCHANGED <<fetchVars, streamVars, enrichVars, requestVars>>
    \/ (\E a \in attempts : GenerationTimeout(a)) /\ UNCHANGED <<fetchVars, streamVars, enrichVars, requestVars>>
    \/ (\E a \in attempts : TimerRuns(a)) /\ UNCHANGED <<fetchVars, streamVars, enrichVars, requestVars>>

TimeoutSpec ==
    /\ TokenSpecInit
    /\ [][TimeoutSpecNext]_vars
    /\ WF_vars((\E a \in attempts : TimerRuns(a)) /\ UNCHANGED <<fetchVars, streamVars, enrichVars, requestVars>>)
    /\ WF_vars((\E a \in attempts : GenerationTimeout(a)) /\ UNCHANGED <<fetchVars, streamVars, enrichVars, requestVars>>)

\* One call of requestCobaltAudio, answered in any of the ways the API, a
\* proxy in front of it, the network or the timer can answer.
RequestSpecInit == TokenInit /\ FetchInit /\ StreamInit /\ EnrichInit /\ RequestInit

RequestSpecNext ==
    \/ requestCobaltAudio /\ UNCHANGED <<tokenVars, fetchVars, streamVars, enrichVars>>
    \/ (\E reply \in ApiReplies : ApiSettles(reply))
          /\ UNCHANGED <<tokenVars, fetchVars, streamVars, enrichVars>>

RequestSpec == RequestSpecInit /\ [][RequestSpecNext]_vars

\* One call of fetchCobaltAudio, in any deployment, for any download URL,
\* against a network that answers each request in any way.
FetchSpecInit == TokenInit /\ FetchInit /\ StreamInit /\ EnrichInit /\ RequestInit

FetchSpecNext ==
    \/ (\E url \in DownloadUrls, withProgress \in BOOLEAN :
           fetchCobaltAudio(url, withProgress)) /\ UNCHANGED <<tokenVars, streamVars, enrichVars, requestVars>>
    \/ IssueRequest /\ UNCHANGED <<tokenVars, streamVars, enrichVars, requestVars>>
    \/ (\E location \in Locations : ReceiveRedirect(location)) /\ UNCHANGED <<tokenVars, streamVars, enrichVars, requestVars>>
    \/ ReceiveNotOk /\ UNCHANGED <<tokenVars, streamVars, enrichVars, requestVars>>
    \/ (\E chunks \in Bodies, hasLength \in BOOLEAN : ReceiveOk(chunks, hasLength))
          /\ UNCHANGED <<tokenVars, streamVars, enrichVars, requestVars>>
    \/ ReadChunk /\ UNCHANGED <<tokenVars, streamVars, enrichVars, requestVars>>
    \/ NetworkError /\ UNCHANGED <<tokenVars, streamVars, enrichVars, requestVars>>
    \/ DownloadTimeout /\ UNCHANGED <<tokenVars, streamVars, enrichVars, requestVars>>
    \/ Elapse(FETCH_TIMEOUT_MS) /\ UNCHANGED <<tokenVars, streamVars, enrichVars, requestVars>>

FetchSpec == FetchSpecInit /\ [][FetchSpecNext]_vars

\* One call of fetchCobaltAudio in the default deployment with time passing
\* in half-timeouts.  The program's own steps, the passage of time and the
\* firing of an expired timer are fair; the network owes nothing.
DeadlineSpecInit ==
    /\ TokenInit
    /\ FetchInit /\ env = [apiUrl |-> <<>>, tunnelHost |-> <<>>]
    /\ StreamInit
    /\ EnrichInit /\ RequestInit

DeadlineSpecNext ==
    \/ (\E url \in DownloadUrls, withProgress \in BOOLEAN :
           fetchCobaltAudio(url, withProgress)) /\ UNCHANGED <<tokenVars, streamVars, enrichVars, requestVars>>
    \/ IssueRequest /\ UNCHANGED <<tokenVars, streamVars, enrichVars, requestVars>>
    \/ (\E location \in Locations : ReceiveRedirect(location))
          /\ UNCHANGED <<tokenVars, streamVars, enrichVars, requestVars>>
    \/ ReceiveNotOk /\ UNCHANGED <<tokenVars, streamVars, enrichVars, requestVars>>
    \/ (\E chunks \in Bodies, hasLength \in BOOLEAN : ReceiveOk(chunks, hasLength))
          /\ UNCHANGED <<tokenVars, streamVars, enrichVars, requestVars>>
    \/ ReadChunk /\ UNCHANGED <<tokenVars, streamVars, enrichVars, requestVars>>
    \/ NetworkError /\ UNCHANGED <<tokenVars, streamVars, enrichVars, requestVars>>
    \/ DownloadTimeout /\ UNCHANGED <<tokenVars, streamVars, enrichVars, requestVars>>
    \/ Elapse(FETCH_TIMEOUT_MS \div 2) /\ UNCHANGED <<tokenVars, streamVars, enrichVars, requestVars>>

DeadlineSpec ==
    /\ DeadlineSpecInit
    /\ [][DeadlineSpecNext]_vars
    /\ WF_vars(IssueRequest /\ UNCHANGED <<tokenVars, streamVars, enrichVars, requestVars>>)
    /\ WF_vars(Elapse(FETCH_TIMEOUT_MS \div 2) /\ UNCHANGED <<tokenVars, streamVars, enrichVars, requestVars>>)
    /\ WF_vars(DownloadTimeout /\ UNCHANGED <<tokenVars, streamVars, enrichVars, requestVars>>)

\* The reporter of a stream (send, closeStream) under a caller that sends and
\* closes in any order, with a client that may go away.
MaxEvents == 3
MaxDropped == 2

ReporterEvents ==
    {StatusEvent("Getting video info..."), ProgressEvent(5),
     ErrorEvent("Download failed. Please try a different video.")}

callerVars ==
    <<spc, response, requestUrl, videoTitle, artist, trackTitle, uploader, enrichments,
      enrichmentPromise, cobaltFailed, downloadMethod, fileExists, tokenArgs, args, tokenMissing, tagWrite,
      errorMessage, procEvents, progressReports, primary, fallbackStarted>>

ReporterSend(ev) ==
    /\ Len(events) < MaxEvents
    /\ dropped < MaxDropped
    /\ StreamBecomes(send(Stream, <<ev>>))
    /\ UNCHANGED callerVars

ReporterClose ==
    /\ dropped < MaxDropped
    /\ StreamBecomes(closeStream(Stream))
    /\ UNCHANGED callerVars

ReporterSpecInit ==
    /\ TokenInit
    /\ FetchInit /\ env = [apiUrl |-> <<>>, tunnelHost |-> <<>>]
    /\ StreamStart("stream")
    /\ EnrichInit /\ RequestInit

ReporterSpecNext ==
    \/ (\E ev \in ReporterEvents : ReporterSend(ev)) /\ UNCHANGED <<tokenVars, fetchVars, enrichVars, requestVars>>
    \/ ReporterClose /\ UNCHANGED <<tokenVars, fetchVars, enrichVars, requestVars>>
    \/ PeerCancel /\ UNCHANGED <<tokenVars, fetchVars, enrichVars, requestVars>>

ReporterSpec == ReporterSpecInit /\ [][ReporterSpecNext]_vars

\* One request to GET /api/download-stream: every callee settles in any of
\* the ways it can, the fallback process emits any events, and the client
\* may go away at any moment.
ProcessErrors ==
    {Error("Error", <<SpawnText>>), Error("Error", <<AgeText>>),
     Error("Error", <<CopyrightText>>)}

StreamSpecInit ==
    /\ TokenInit
    /\ FetchInit /\ env = [apiUrl |-> <<>>, tunnelHost |-> <<>>]
    /\ StreamInit
    /\ EnrichInit /\ RequestInit

StreamSpecNext ==
    \/ (\E videoUrl \in RequestUrls : GET(videoUrl)) /\ UNCHANGED <<tokenVars, fetchVars, enrichVars, requestVars>>
    \/ PeerCancel /\ UNCHANGED <<tokenVars, fetchVars, enrichVars, requestVars>>
    \/ (\E m \in MetadataOutcomes : MetadataSettles(m))
          /\ UNCHANGED <<tokenVars, fetchVars, enrichVars, requestVars>>
    \/ (\E r \in RequestOutcomes : RequestSettles(r))
          /\ UNCHANGED <<tokenVars, fetchVars, enrichVars, requestVars>>
    \/ (\E p \in ProgressReports : DownloadProgress(p))
          /\ UNCHANGED <<tokenVars, fetchVars, enrichVars, requestVars>>
    \/ (\E r \in DownloadOutcomes, written \in BOOLEAN : DownloadSettles(r, written))
          /\ UNCHANGED <<tokenVars, fetchVars, enrichVars, requestVars>>
    \/ (\E ok \in BOOLEAN : GetYTDlpSettles(ok)) /\ UNCHANGED <<tokenVars, fetchVars, enrichVars, requestVars>>
    \/ (\E tokenResult \in TokenResults : TokenSettles(tokenResult))
          /\ UNCHANGED <<tokenVars, fetchVars, enrichVars, requestVars>>
    \/ (procEvents < MaxProcEvents /\ \E percent \in {-1, 50, 120} : ProcProgress(percent))
          /\ UNCHANGED <<tokenVars, fetchVars, enrichVars, requestVars>>
    \/ (procEvents < MaxProcEvents /\ \E report \in ToolReports : ProcYtDlpEvent(report))
          /\ UNCHANGED <<tokenVars, fetchVars, enrichVars, requestVars>>
    \/ (procEvents < MaxProcEvents /\ \E text \in StderrTexts : ProcStderr(text))
          /\ UNCHANGED <<tokenVars, fetchVars, enrichVars, requestVars>>
    \/ (\E error \in ProcessErrors : ProcError(error))
          /\ UNCHANGED <<tokenVars, fetchVars, enrichVars, requestVars>>
    \/ (\E code \in {0, 1}, exists \in BOOLEAN : ProcClose(code, exists))
          /\ UNCHANGED <<tokenVars, fetchVars, enrichVars, requestVars>>
    \/ (\E enrichment \in EnrichmentResults, tagging \in TaggingOutcomes :
           EnrichmentSettles(enrichment, tagging)) /\ UNCHANGED <<tokenVars, fetchVars, enrichVars, requestVars>>
    \/ (\E ok \in BOOLEAN : StatSettles(ok)) /\ UNCHANGED <<tokenVars, fetchVars, enrichVars, requestVars>>
    \/ (\E ok \in BOOLEAN : ReadSettles(ok)) /\ UNCHANGED <<tokenVars, fetchVars, enrichVars, requestVars>>

StreamSpec == StreamSpecInit /\ [][StreamSpecNext]_vars

\* The calls of the controller that carry a deadline of their own settle:
\* fetchYouTubeMetadata (youtube-metadata.ts 28-29), requestCobaltAudio
\* (cobalt.ts 241-242), fetchCobaltAudio (cobalt.ts 428-429), fetchPoToken
\* (GENERATION_TIMEOUT_MS) and the enrichment lookups (musicbrainz.ts 67-68,
\* 114-115), as do the reads of the local file system.  getYTDlp and the
\* awaited fallback process (lines 426-437) carry none.
DeadlinesKept ==
    /\ WF_vars((\E m \in MetadataOutcomes : MetadataSettles(m))
                   /\ UNCHANGED <<tokenVars, fetchVars, enrichVars, requestVars>>)
    /\ WF_vars((\E r \in RequestOutcomes : RequestSettles(r))
                   /\ UNCHANGED <<tokenVars, fetchVars, enrichVars, requestVars>>)
    /\ WF_vars((\E r \in DownloadOutcomes, written \in BOOLEAN : DownloadSettles(r, written))
                   /\ UNCHANGED <<tokenVars, fetchVars, enrichVars, requestVars>>)
    /\ WF_vars((\E tokenResult \in TokenResults : TokenSettles(tokenResult))
                   /\ UNCHANGED <<tokenVars, fetchVars, enrichVars, requestVars>>)
    /\ WF_vars((\E enrichment \in EnrichmentResults, tagging \in TaggingOutcomes :
                    EnrichmentSettles(enrichment, tagging))
                   /\ UNCHANGED <<tokenVars, fetchVars, enrichVars, requestVars>>)
    /\ WF_vars((\E ok \in BOOLEAN : StatSettles(ok)) /\ UNCHANGED <<tokenVars, fetchVars, enrichVars, requestVars>>)
    /\ WF_vars((\E ok \in BOOLEAN : ReadSettles(ok)) /\ UNCHANGED <<tokenVars, fetchVars, enrichVars, requestVars>>)

\* The controller with every deadline-bearing call settling in the end.
ServeSpec == StreamSpecInit /\ [][StreamSpecNext]_vars /\ DeadlinesKept

\* One call of enrichMetadata: every lookup it makes ends in any of the ways
\* it can, the tag and the label lookup in either order.
EnrichSpecInit ==
    /\ TokenInit
    /\ FetchInit /\ env = [apiUrl |-> <<>>, tunnelHost |-> <<>>]
    /\ StreamInit
    /\ EnrichInit /\ RequestInit

EnrichSpecNext ==
    \/ (\E q \in Queries : enrichMetadata(q))
          /\ UNCHANGED <<tokenVars, fetchVars, streamVars, requestVars>>
    \/ (\E o \in FetchFailures \cup SearchResults : SearchSettles(o))
          /\ UNCHANGED <<tokenVars, fetchVars, streamVars, requestVars>>
    \/ (\E o \in FetchFailures \cup TagResults : TagsSettle(o))
          /\ UNCHANGED <<tokenVars, fetchVars, streamVars, requestVars>>
    \/ (\E o \in FetchFailures \cup LabelResults : LabelsSettle(o))
          /\ UNCHANGED <<tokenVars, fetchVars, streamVars, requestVars>>
    \/ LookupTrackReturns /\ UNCHANGED <<tokenVars, fetchVars, streamVars, requestVars>>
    \/ (\E o \in FetchFailures \cup ArtResults : CoverArtSettles(o))
          /\ UNCHANGED <<tokenVars, fetchVars, streamVars, requestVars>>
    \/ (\E o \in FetchFailures \cup ArtResults : ThumbnailSettles(o))
          /\ UNCHANGED <<tokenVars, fetchVars, streamVars, requestVars>>

EnrichSpec == EnrichSpecInit /\ [][EnrichSpecNext]_vars

\* Mutant of AwaitsEnrichment: the promise is awaited before the primary
\* request as well.
AwaitsEnrichment_BeforePrimary(at) == at \in {"request", "enrichment"}

\* The one place where the controller awaits enrichmentPromise: line 459,
\* reached when the audio file exists.
AwaitsEnrichment(at) == at = "enrichment"

\* A step of the controller at position `at` can be taken: an await of the
\* enrichment holds it up until enrichMetadata has settled.
EnrichmentReady(at) == spc = at /\ (AwaitsEnrichment(at) => epc = "resolved")

\* Lines 220-229: enrichMetadata is called, with the artist and title when
\* both are known and with the video id alone otherwise.
StartEnrichment ==
    IF spc' = "request"
    THEN enrichMetadata([artist |-> IF artist' # "" /\ trackTitle' # "" THEN artist' ELSE "",
                         title |-> IF artist' # "" /\ trackTitle' # "" THEN trackTitle' ELSE "",
                         videoId |-> "dQw4w9WgXcQ"])
    ELSE UNCHANGED enrichVars

\* What `await enrichmentPromise` yields once enrichMetadata has resolved.
AwaitedEnrichment ==
    [metadata |-> settled[1].metadata # <<>>, artwork |-> settled[1].artwork # <<>>]

\* The lookup outcomes the combined specification draws from: a timeout, or
\* an answer; the search finds nothing or one recording with one release.
OverlapFailures == {o \in FetchFailures : o.kind = "aborted"}

OverlapSearchResults ==
    {q \in SearchResults :
         q.recordings = 0 \/ (q.id = "rec1" /\ Len(q.releases) = 1 /\ q.releases[1].id = "a1")}

\* Tool events one fallback process may deliver in RestartSpec.
MaxToolEvents == 3

\* oEmbed answers: those of MetadataOutcomes, and one without a title whose
\* artist is the channel name.
RestartMetadata ==
    MetadataOutcomes \cup
    {[kind |-> "ok", videoTitle |-> "", artist |-> "Channel", trackTitle |-> "",
      uploader |-> "Channel"]}

\* The fallback path of one request whose primary request fails: the tool
\* reports several events, with and without a title, before it exits.
RestartSpecNext ==
    \/ GET(<<"https://youtu.be/dQw4w9WgXcQ">>) /\ UNCHANGED <<tokenVars, fetchVars, enrichVars, requestVars>>
    \/ (\E m \in RestartMetadata : MetadataSettles(m))
          /\ UNCHANGED <<tokenVars, fetchVars, enrichVars, requestVars>>
    \/ (\E r \in {o \in RequestOutcomes : o.kind # "ok"} : RequestSettles(r))
          /\ UNCHANGED <<tokenVars, fetchVars, enrichVars, requestVars>>
    \/ GetYTDlpSettles(TRUE) /\ UNCHANGED <<tokenVars, fetchVars, enrichVars, requestVars>>
    \/ TokenSettles(<<>>) /\ UNCHANGED <<tokenVars, fetchVars, enrichVars, requestVars>>
    \/ (procEvents < MaxToolEvents /\ \E report \in ToolReports : ProcYtDlpEvent(report))
          /\ UNCHANGED <<tokenVars, fetchVars, enrichVars, requestVars>>
    \/ ProcClose(0, TRUE) /\ UNCHANGED <<tokenVars, fetchVars, enrichVars, requestVars>>
    \/ (\E enrichment \in EnrichmentResults : EnrichmentSettles(enrichment, "written"))
          /\ UNCHANGED <<tokenVars, fetchVars, enrichVars, requestVars>>

RestartSpec == StreamSpecInit /\ [][RestartSpecNext]_vars

\* The controller together with the enrichment it starts: one request whose
\* callees settle in any of the ways they can while the lookups of
\* enrichMetadata fail, find nothing or succeed, at any moment.
OverlapSpecNext ==
    \/ GET(<<"https://youtu.be/dQw4w9WgXcQ">>) /\ UNCHANGED <<tokenVars, fetchVars, enrichVars, requestVars>>
    \/ EnrichmentReady("metadata")
          /\ (\E m \in MetadataOutcomes : MetadataSettles(m) /\ StartEnrichment)
          /\ UNCHANGED <<tokenVars, fetchVars, requestVars>>
    \/ EnrichmentReady("request")
          /\ (\E r \in RequestOutcomes : RequestSettles(r))
          /\ UNCHANGED <<tokenVars, fetchVars, enrichVars, requestVars>>
    \/ EnrichmentReady("download")
          /\ (\E r \in DownloadOutcomes, written \in BOOLEAN : DownloadSettles(r, written))
          /\ UNCHANGED <<tokenVars, fetchVars, enrichVars, requestVars>>
    \/ EnrichmentReady("getYTDlp")
          /\ (\E ok \in BOOLEAN : GetYTDlpSettles(ok))
          /\ UNCHANGED <<tokenVars, fetchVars, enrichVars, requestVars>>
    \/ EnrichmentReady("token")
          /\ TokenSettles(<<>>)
          /\ UNCHANGED <<tokenVars, fetchVars, enrichVars, requestVars>>
    \/ EnrichmentReady("process")
          /\ (\E code \in {0, 1}, exists \in BOOLEAN : ProcClose(code, exists))
          /\ UNCHANGED <<tokenVars, fetchVars, enrichVars, requestVars>>
    \/ EnrichmentReady("enrichment")
          /\ EnrichmentSettles(AwaitedEnrichment, "written")
          /\ UNCHANGED <<tokenVars, fetchVars, enrichVars, requestVars>>
    \/ EnrichmentReady("stat")
          /\ (\E ok \in BOOLEAN : StatSettles(ok))
          /\ UNCHANGED <<tokenVars, fetchVars, enrichVars, requestVars>>
    \/ EnrichmentReady("read")
          /\ (\E ok \in BOOLEAN : ReadSettles(ok))
          /\ UNCHANGED <<tokenVars, fetchVars, enrichVars, requestVars>>
    \/ (\E o \in OverlapFailures \cup OverlapSearchResults : SearchSettles(o))
          /\ UNCHANGED <<tokenVars, fetchVars, streamVars, requestVars>>
    \/ (\E o \in OverlapFailures \cup {q \in TagResults : Len(q.tags) = 1} : TagsSettle(o))
          /\ UNCHANGED <<tokenVars, fetchVars, streamVars, requestVars>>
    \/ (\E o \in OverlapFailures \cup LabelResults : LabelsSettle(o))
          /\ UNCHANGED <<tokenVars, fetchVars, streamVars, requestVars>>
    \/ LookupTrackReturns /\ UNCHANGED <<tokenVars, fetchVars, streamVars, requestVars>>
    \/ (\E o \in OverlapFailures \cup ArtResults : CoverArtSettles(o))
          /\ UNCHANGED <<tokenVars, fetchVars, streamVars, requestVars>>
    \/ (\E o \in OverlapFailures \cup ArtResults : ThumbnailSettles(o))
          /\ UNCHANGED <<tokenVars, fetchVars, streamVars, requestVars>>

OverlapSpec == StreamSpecInit /\ [][OverlapSpecNext]_vars


(***************************************************************************)
(* Claims about the token cache.                                           *)
(***************************************************************************)

WaitingCallers == {c \in Callers : callers[c].pc = "waiting"}

\* A fetchPoToken call is made in this step.
CallStep == calls' # calls

\* The call made in this step returned at once (it is not left waiting).
CallReturned == CallStep /\ callers' = callers

\* The call made in this step is left awaiting a generation attempt.
CallAwaits == CallStep /\ \E c \in Callers :
                  callers[c].pc = "idle" /\ callers'[c].pc = "waiting"
                  /\ \E a \in attempts' : a.id = callers'[c].on

\* An attempt ends in this step.
AttemptEnds == \E a \in attempts : a \notin attempts'

\* C2 (as stated): for the fetchPoToken calls pending together, the generator
\* was invoked exactly once, by the attempt they all await (a generation
\* carries the id of the attempt that invoked generate()).
C2_GeneratorInvokedExactlyOnce ==
    \A a \in attempts : a.gen = a.id

\* C2 (amended): all fetchPoToken calls pending together await one and the
\* same attempt, the one held in inFlight; that attempt awaits a single
\* unsettled generation, which it either invoked itself (one invocation) or
\* found still pending from an earlier timed-out attempt (no invocation); and
\* when the attempt ends every one of those calls settles with its one value.
C2_SingleFlight ==
    /\ [](/\ Cardinality(attempts) <= 1
          /\ \A c \in WaitingCallers :
                 inFlight # Null /\ callers[c].on = inFlight
                 /\ \E a \in attempts : a.id = inFlight
          /\ \A a \in attempts :
                 /\ a.gen \in generations
                 /\ a.gen <= a.id
                 /\ Cardinality({g \in generations : g >= a.id}) <= 1)
    /\ [][AttemptEnds =>
            /\ WaitingCallers' = {}
            /\ last'.via = "attempt"
            /\ last'.n = Cardinality(WaitingCallers)]_vars

\* Witness for C2: NumCallers calls were pending together and settled with
\* one token from one attempt.
C2_Witness ==
    last.via = "attempt" /\ last.n = NumCallers /\ last.outcome = "token"
    /\ last.value # Null

\* C6: while now - T < TTL every call returns the token cached at T, leaves
\* the entry as it is and invokes no generator; the first call that sees the
\* entry at age >= TTL starts a generation attempt and invokes the generator.
C6_TTLBoundary ==
    [][CallStep /\ cached # <<>> =>
         /\ (now - cached[1].fetchedAt < CACHE_TTL_MS =>
                /\ CallReturned
                /\ last'.via = "fast"
                /\ last'.value = cached[1].result
                /\ cached' = cached
                /\ generations' = generations
                /\ attempts' = attempts)
         /\ (now - cached[1].fetchedAt >= CACHE_TTL_MS /\ ~expiredRead =>
                /\ CallAwaits
                /\ attempts' # attempts
                /\ generations' # generations)]_vars

\* Witness for C6: a call was served from the cache, the entry then reached
\* its TTL exactly, and the next call started a generation.
C6_Witness ==
    /\ cached # <<>> /\ now - cached[1].fetchedAt = CACHE_TTL_MS
    /\ last.via = "fast" /\ last.value = cached[1].result
    /\ attempts # {} /\ generations # {}

\* C7 (as stated): within the backoff window after a failure every call
\* returns the previously cached value if there is one, else none, and no
\* generation is attempted; after the window a call attempts generation.
C7_BackoffReturnsAnyCached ==
    [][CallStep /\ lastFailedAt # 0 =>
         /\ (now - lastFailedAt < FAILURE_BACKOFF_MS =>
                /\ CallReturned
                /\ last'.value = (IF cached # <<>> THEN cached[1].result ELSE Null)
                /\ generations' = generations
                /\ attempts' = attempts)
         /\ (now - lastFailedAt >= FAILURE_BACKOFF_MS => CallAwaits)]_vars

\* C7 (amended): within the backoff window every call returns the previously
\* cached value if there is one younger than 2 x TTL, else none, and no
\* generation is attempted; after the window a call awaits a generation
\* attempt (starting one unless one is already in flight).
C7_BackoffStaleReuse ==
    [][CallStep /\ lastFailedAt # 0 =>
         /\ (now - lastFailedAt < FAILURE_BACKOFF_MS =>
                /\ CallReturned
                /\ last'.via = "backoff"
                /\ last'.value =
                     (IF cached # <<>> /\ now - cached[1].fetchedAt < 2 * CACHE_TTL_MS
                      THEN cached[1].result ELSE Null)
                /\ cached' = cached
                /\ generations' = generations
                /\ attempts' = attempts)
         /\ (now - lastFailedAt >= FAILURE_BACKOFF_MS => CallAwaits)]_vars

\* Witness for C7: one millisecond before the backoff window ends a call was
\* answered with the stale cached token.
C7_Witness ==
    /\ last.via = "backoff" /\ last.value # Null
    /\ cached # <<>> /\ last.value = cached[1].result
    /\ lastFailedAt # 0 /\ now - lastFailedAt = FAILURE_BACKOFF_MS - 1

\* C8: no call resolves to a cached token that is 2 x TTL old or older.
C8_NeverServedBeyondMaxStale ==
    last.value # Null => last.age >= 0 /\ last.age < 2 * CACHE_TTL_MS

\* Witness for C8: callers that joined an attempt that timed out were served
\* a token past its TTL.
C8_Witness ==
    /\ last.via = "attempt" /\ last.outcome = "timeout" /\ last.n >= 2
    /\ last.value # Null /\ last.age >= CACHE_TTL_MS

\* C9 (as stated): at most one generator invocation is unsettled at a time.
C9_AtMostOneGeneration ==
    Cardinality(generations) <= 1

\* C10: fetchPoToken never rejects; when generation fails (rejection, throw,
\* timeout, malformed or incomplete payload) every awaiting call resolves to
\* the cached token if it is younger than 2 x TTL and to null otherwise.
C10_NeverRejects ==
    /\ [](last.settled # "rejected")
    /\ [][AttemptEnds /\ last'.outcome # "token" =>
            /\ WaitingCallers' = {}
            /\ last'.settled = "resolved"
            /\ last'.value =
                 (IF cached # <<>> /\ now - cached[1].fetchedAt < 2 * CACHE_TTL_MS
                  THEN cached[1].result ELSE Null)]_vars

\* Witness for C10: a generator that returned a malformed payload left the
\* caller with the stale token.
C10_Witness ==
    /\ last.via = "attempt" /\ last.outcome = "malformed"
    /\ last.settled = "resolved" /\ last.value # Null /\ last.n >= 1

\* C11: clearCache leaves no cached token, no recorded failure and no
\* in-flight marker, also when it is called while a generation is pending.
C11_ClearCacheResetsAll ==
    [][clearCache => cached' = <<>> /\ lastFailedAt' = 0 /\ inFlight' = Null]_vars


(***************************************************************************)
(* Claims about the fetcher.                                               *)
(***************************************************************************)

\* C1: every URL requested passed the allow-list; a redirect's target is its
\* Location resolved against the URL just requested, and is the next URL
\* requested only if it is allowed; a hop whose target is not allowed (or a
\* response that is no redirect) is the last request, and the call has failed
\* with the blocked-redirect error.
C1_RedirectsValidated ==
    /\ Len(responses) <= Len(requests)
    /\ Len(requests) <= Len(responses) + 1
    /\ \A i \in 1..Len(requests) :
           /\ isAllowedDownloadUrl(requests[i])
           /\ i = 1 => requests[i] = downloadUrl
    /\ \A i \in 1..Len(responses) :
           LET r == responses[i]
               target == IF r.location = <<>> THEN <<>>
                         ELSE ResolveUrl(r.location[1], requests[i])
           IN  /\ i < Len(requests) =>
                     /\ r.status = 302
                     /\ target # <<>>
                     /\ requests[i + 1] = target[1]
               /\ r.status = 302 /\ target # <<>> /\ ~isAllowedDownloadUrl(target[1]) =>
                     /\ i = Len(requests)
                     /\ fpc = "failed"
                     /\ outcome = Rejected("CobaltError",
                                           "Redirect to disallowed URL blocked")

\* Witness for C1: after an allowed redirect was followed, a redirect to the
\* link-local metadata address was blocked and not requested.
C1_Witness ==
    /\ Len(requests) = 2 /\ Len(responses) = 2
    /\ responses[2].location # <<>>
    /\ responses[2].location[1].host = h_metadata
    /\ fpc = "failed"
    /\ outcome.message = "Redirect to disallowed URL blocked"

\* C5: a download URL that parses but whose scheme or host is not allowed, the
\* link-local metadata address among them, is rejected with the
\* invalid-download-URL error before any request is issued.
C5_InitialUrlValidated ==
    fpc # "idle" /\ ParseUrl(downloadUrl) # <<>>
    /\ (~isAllowedDownloadUrl(downloadUrl) \/ downloadUrl.host = h_metadata)
    => /\ fpc = "failed"
       /\ outcome = Rejected("CobaltError", "Invalid download URL from Cobalt")
       /\ requests = <<>>

\* Witness for C5: http://169.254.169.254/latest/meta-data/ was refused with
\* no request made.
C5_Witness ==
    /\ downloadUrl = Url("http", h_metadata, "/latest/meta-data/")
    /\ fpc = "failed"
    /\ outcome.message = "Invalid download URL from Cobalt"
    /\ requests = <<>>

Redirects == {i \in 1..Len(responses) : responses[i].status = 302}

\* C12: a chain of up to MAX_REDIRECTS allowed redirects is followed to its
\* final response; the too-many-redirects error is raised only for a chain
\* of more than MAX_REDIRECTS redirects, and the number of requests is bounded.
C12_OnlyLongerChainsFail ==
    /\ outcome = Rejected("CobaltError", "Too many redirects")
           => Cardinality(Redirects) > MAX_REDIRECTS
    /\ Len(requests) <= MAX_REDIRECTS + 1


SchemeAccepted(url) ==
    \/ ParseUrl(url)[1].protocol = "https:"
    \/ isPrivateCobaltInstance /\ ParseUrl(url)[1].protocol = "http:"

\* The hosts of the allowed set: the static defaults, the host of the
\* configured API URL and the configured tunnel host.
AllowedHostSet ==
    DEFAULT_ALLOWED_DOWNLOAD_HOSTS
      \cup (IF ParseUrl(getCobaltApiUrl) # <<>>
            THEN {ParseUrl(getCobaltApiUrl)[1].hostname} ELSE {})
      \cup (IF env.tunnelHost # <<>> THEN {env.tunnelHost[1]} ELSE {})

Refused == outcome = Rejected("CobaltError", "Invalid download URL from Cobalt")

\* C13: a URL of acceptable scheme is accepted if and only if its host equals
\* a host of the allowed set or ends with "." followed by such a host.
C13_HostAcceptedIffInSet ==
    fpc # "idle" /\ ParseUrl(downloadUrl) # <<>> /\ SchemeAccepted(downloadUrl)
    => (~Refused <=>
            \E host \in AllowedHostSet :
                \/ downloadUrl.host = host
                \/ EndsWith(downloadUrl.host, <<".">> \o host))


\* COBALT_API_URL is an http URL on a private hostname.
ExplicitlyPrivate ==
    /\ env.apiUrl # <<>>
    /\ env.apiUrl[1].kind = "abs"
    /\ env.apiUrl[1].scheme = "http"
    /\ isPrivateHostname(env.apiUrl[1].host)

\* C14: every URL requested is https, or http in an explicitly private
\* deployment; an initial URL of any other scheme, or of scheme http in a
\* deployment that is not explicitly private, is refused with no request.
C14_PlainHttpOnlyWhenPrivate ==
    /\ \A i \in 1..Len(requests) :
           \/ requests[i].scheme = "https"
           \/ requests[i].scheme = "http" /\ ExplicitlyPrivate
    /\ fpc # "idle" /\ ParseUrl(downloadUrl) # <<>>
       /\ (\/ downloadUrl.scheme \notin {"http", "https"}
           \/ downloadUrl.scheme = "http" /\ ~ExplicitlyPrivate)
       => Refused /\ requests = <<>>

\* Witness for C14: with an http API URL on a public host, a plain-http URL
\* on an allowed host was refused.
C14_Witness ==
    /\ env.apiUrl = <<Url("http", h_api_cobalt_tools, "/")>>
    /\ downloadUrl = Url("http", h_cdn_cobalt_tools, "/a")
    /\ Refused
    /\ requests = <<>>


TimedOut == Rejected("CobaltError", "Cobalt download timed out")

Pending == fpc \in {"loop", "awaiting", "reading"}

\* C15: the timer is armed exactly once, before the first request, and stays
\* armed while the call is pending, body streaming included; no hop gives it
\* more time; the timed-out error is raised only on expiry; and a pending
\* call always ends, by the timer at the latest.
C15_SingleDeadline ==
    /\ [](/\ timerStarts <= 1
          /\ requests # <<>> => timerStarts = 1
          /\ Pending => timer # <<>>)
    /\ [][/\ timer # <<>> /\ timer' # <<>> => timer'[1] <= timer[1]
          /\ outcome' = TimedOut /\ outcome # TimedOut => timer = <<0>>]_vars
    /\ Pending ~> fpc \in {"done", "failed"}

\* Witness for C15: after a redirect was followed, the call timed out while
\* the body was being streamed.
C15_Witness ==
    /\ outcome = TimedOut
    /\ Len(requests) >= 2
    /\ progress # <<>>


(***************************************************************************)
(* Claims about the download-stream controller.                            *)
(***************************************************************************)

\* C16: controller.close() is called at most once; once the stream is marked
\* closed, by closeStream or by a failed enqueue, every send and every
\* closeStream leaves the events, the transport and the mark as they are.
C16_CloseIdempotent ==
    /\ [](closeCalls <= 1)
    /\ [][isClosed => /\ isClosed'
                      /\ events' = events
                      /\ transport' = transport
                      /\ closeCalls' = closeCalls]_vars
    /\ [][dropped' > dropped => isClosed' /\ closeCalls' <= closeCalls + 1]_vars

\* Witness for C16: after events were delivered and the stream closed, two
\* more calls were made and dropped.
C16_Witness ==
    /\ isClosed
    /\ closeCalls = 1
    /\ events # <<>>
    /\ dropped = 2


FallbackPath == spc \in {"getYTDlp", "token", "process"}

PrimaryFailed == primary # <<>> /\ primary[1].kind # "ok"

PrimarySucceeded == primary # <<>> /\ primary[1].kind = "ok"

\* C3: the fallback runs if and only if the primary attempt failed: the
\* fallback branch is entered only after a primary failure, every primary
\* failure (whatever was thrown, a zero-length payload included) enters it in
\* the same step, and after a primary success it is never entered.
C3_FallbackIffPrimaryFailed ==
    /\ [](/\ fallbackStarted <=> PrimaryFailed
          /\ cobaltFailed <=> PrimaryFailed
          /\ FallbackPath => PrimaryFailed
          /\ PrimarySucceeded => ~FallbackPath /\ downloadMethod = "cobalt")
    /\ [][/\ primary = <<>> /\ primary' # <<>> /\ primary'[1].kind # "ok"
             => spc' = "getYTDlp"
          /\ primary # <<>> => primary' = primary]_vars

\* Witness for C3: a zero-length payload from the primary download has the
\* fallback process running.
C3_Witness ==
    /\ primary = <<EmptyContent>>
    /\ spc = "process"
    /\ fallbackStarted

Terminal(e) == e.type \in {"complete", "error"}

TerminalEvents == {i \in 1..Len(events) : Terminal(events[i])}

\* C4: the events delivered hold at most one terminal event (complete or
\* error), nothing follows it, and once start() has returned to a client
\* that is still connected there is exactly one.
C4_ExactlyOneTerminalEventLast ==
    /\ Cardinality(TerminalEvents) <= 1
    /\ \A i \in TerminalEvents : i = Len(events)
    /\ spc = "done" /\ transport # "cancelled" => Cardinality(TerminalEvents) = 1

ErrorEvents(evs) == {i \in 1..Len(evs) : evs[i].type = "error"}

Last(evs) == evs[Len(evs)]

\* C17: a failure of the primary attempt is never surfaced.  The step that
\* catches it, like every step of the primary attempt, adds no error event;
\* no error event ever carries the primary error's message; and a request
\* whose primary attempt failed ends, for a client still connected, with a
\* complete event naming the fallback unless a later stage reported an error
\* of its own, in which case the stream holds no complete event.
C17_PrimaryFailureNotSurfaced ==
    /\ [](PrimaryFailed =>
            \A i \in ErrorEvents(events) : events[i].message # primary[1].message)
    /\ [](spc = "done" /\ PrimaryFailed /\ transport # "cancelled" =>
            /\ ErrorEvents(events) = {} <=> Last(events).type = "complete"
            /\ Last(events).type = "complete" =>
                   Last(events).downloadMethod = "yt-dlp")
    /\ [][(spc \in {"request", "download"})
              => ErrorEvents(events') = ErrorEvents(events)]_vars

\* Witness for C17: the primary request was refused for rate limiting, the
\* fallback ran, and the stream ended with the complete event and no error.
C17_Witness ==
    /\ spc = "done"
    /\ primary = <<Rejected("CobaltError", "Cobalt rate limit exceeded")>>
    /\ ErrorEvents(events) = {}
    /\ Last(events).type = "complete"
    /\ Last(events).downloadMethod = "yt-dlp"

\* The messages of parseYtDlpError's table and the two constant messages.
UserMessages ==
    {"This video requires authentication. Please try a different video or try again later.",
     "This video is unavailable or private.",
     "This video is age-restricted and cannot be downloaded.",
     "This video is blocked due to copyright restrictions.",
     "This video is private and cannot be downloaded.",
     "Download failed. Please try a different video.",
     "Video not found or unavailable",
     "Download completed but file not found"}

\* The raw texts of the errors the controller's collaborators raise.
RawTexts ==
    {f.text : f \in StderrTexts \cup {AgeText, CopyrightText, SpawnText, ExitText,
                                      BinaryText, FsText, ClosedText, TagText}}
    \cup {r.message : r \in {q \in RequestOutcomes \cup DownloadOutcomes
                                     \cup {EmptyContent, WriteFailure} :
                                 q.kind # "ok"}}

\* C18: the message of every error event written to the stream is one of the
\* eight user-facing messages, and none is the raw text of an error raised
\* by the fallback process, the primary provider or the file system.
C18_ErrorMessagesFromTable ==
    \A i \in ErrorEvents(events) :
        /\ events[i].message \in UserMessages
        /\ events[i].message \notin RawTexts

\* Witness for C18: the process wrote a bot-check error to stderr and exited
\* with a failure; the client was sent the authentication message.
C18_Witness ==
    /\ spc = "done"
    /\ errorMessage = <<BotCheckText>>
    /\ ErrorEvents(events) # {}
    /\ Last(events) = ErrorEvent(parseYtDlpError(<<BotCheckText>>))

\* C19: every request that opened a stream eventually returns from start()
\* with the stream closed, whatever the collaborators do.
C19_EveryRequestEnds ==
    (response = "stream") ~> (spc = "done" /\ transport # "open")

\* C20: a missing token is not terminal.  The step in which fetchPoToken
\* resolves, to null or otherwise, starts the fallback process and writes
\* nothing to the stream; after a null the process runs without the token
\* arguments, and it is the process's own outcome that ends the request.
C20_MissingTokenNotTerminal ==
    /\ [](tokenMissing => ~tokenArgs /\ fallbackStarted)
    /\ [][spc = "token" /\ spc' # "token"
             => /\ spc' = "process"
                /\ events' = events
                /\ isClosed' = isClosed
                /\ transport' = transport]_vars
    /\ [][tokenMissing' /\ ErrorEvents(events') # ErrorEvents(events)
             => spc \in {"process", "stat", "read"}]_vars

\* Witness for C20: fetchPoToken resolved to null, the process ran without
\* token arguments and the request ended with the complete event.
C20_Witness ==
    /\ tokenMissing
    /\ ~tokenArgs
    /\ spc = "done"
    /\ ErrorEvents(events) = {}
    /\ Last(events).type = "complete"

TaggingFailed == tagWrite \in {"not written", "threw"}

\* C21: a failed ID3 write is not fatal.  Whether the write returns a value
\* other than true or throws, the step that awaits the enrichment and tags
\* the file goes on to the file's size and adds no error event; the request
\* then ends, for a client still connected, with the complete event unless
\* reading the file back fails.
C21_TaggingFailureNotFatal ==
    /\ [][(spc = "enrichment" /\ spc' # "enrichment")
             => /\ spc' = "stat"
                /\ tagWrite' \in TaggingOutcomes
                /\ ErrorEvents(events') = ErrorEvents(events)]_vars
    /\ [][(TaggingFailed' /\ ErrorEvents(events') # ErrorEvents(events))
             => spc \in {"stat", "read"}]_vars
    /\ [](spc = "done" /\ TaggingFailed /\ transport # "cancelled" =>
             (ErrorEvents(events) = {} <=> Last(events).type = "complete"))

\* Witness for C21: the ID3 write threw and the request ended with the
\* complete event and no error event.
C21_Witness ==
    /\ tagWrite = "threw"
    /\ spc = "done"
    /\ ErrorEvents(events) = {}
    /\ Last(events).type = "complete"

(***************************************************************************)
(* Claims about the metadata enrichment.                                   *)
(***************************************************************************)

LookupFailed(what) ==
    \E i \in 1..Len(lookups) : lookups[i].what = what /\ lookups[i].kind # "ok"

LookupOk(what) ==
    \E i \in 1..Len(lookups) : lookups[i].what = what /\ lookups[i].kind = "ok"

\* C22: enrichMetadata never rejects.  However its lookups end, it settles
\* by resolving to a record whose metadata is null or a track record and
\* whose artwork is null or an image; and a lookup that fails costs only its
\* own part: after a failed track search the thumbnail is still asked for,
\* and the artwork is the thumbnail whenever that fetch succeeds.
C22_EnrichNeverRejects ==
    /\ epc # "rejected"
    /\ \A i \in 1..Len(settled) :
           /\ settled[i].kind = "resolved"
           /\ Len(settled[i].metadata) <= 1
           /\ Len(settled[i].artwork) <= 1
           /\ \A k \in 1..Len(settled[i].artwork) :
                  settled[i].artwork[k].from \in {"coverArt", "thumbnail"}
           /\ \A k \in 1..Len(settled[i].metadata) :
                  settled[i].metadata[k].releaseId \in {r.id : r \in ReleasePool}
    /\ epc = "resolved" <=> settled # <<>>
    /\ epc = "resolved" /\ LookupFailed("search") /\ query.videoId # "" =>
           /\ \E i \in 1..Len(lookups) : lookups[i].what = "thumbnail"
           /\ LookupOk("thumbnail") => settled[1].artwork = <<Art("thumbnail", "image/jpeg")>>

\* Witness for C22: the track search timed out, the thumbnail fetch was
\* rejected, and enrichMetadata resolved with both parts null.
C22_Witness ==
    /\ lookups = <<[what |-> "search", kind |-> "aborted"],
                   [what |-> "thumbnail", kind |-> "rejected"]>>
    /\ settled = <<[kind |-> "resolved", metadata |-> <<>>, artwork |-> <<>>]>>

\* C23: once the recording search has produced a release, lookupTrack
\* returns a record, never null, however the tag and the label lookup end.
\* The record's album, year, track number and release id are those of the
\* release picked; a tag lookup that failed, was refused or timed out leaves
\* the genre empty and the label as looked up, and a failed label lookup
\* leaves the label empty and the genre as looked up.
C23_SubLookupFailureContributesEmpty ==
    [][(epc = "sublookups" /\ epc' # "sublookups")
          => /\ metadata' # <<>>
             /\ metadata'[1].album = release[1].title
             /\ metadata'[1].year = Year(release[1].date)
             /\ metadata'[1].trackNumber =
                    (IF release[1].number = <<>> THEN "" ELSE release[1].number[1])
             /\ metadata'[1].releaseId = release[1].id
             /\ metadata'[1].genre =
                    (IF LookupFailed("tags") THEN "" ELSE extractGenre(tagsP[1]))
             /\ metadata'[1].label =
                    (IF LookupFailed("labels") THEN "" ELSE labelP[1])]_vars

\* Witness for C23: the tag lookup timed out, the label lookup answered, and
\* lookupTrack returned a record with an empty genre and the label.
C23_Witness ==
    /\ epc = "coverArt"
    /\ \E i \in 1..Len(lookups) : lookups[i] = [what |-> "tags", kind |-> "aborted"]
    /\ LookupOk("labels")
    /\ metadata # <<>>
    /\ metadata[1].genre = ""
    /\ metadata[1].label = "Warp"
    /\ metadata[1].album = "Long Player"

\* The controller can take the step that settles the primary request or
\* the primary download.
PrimaryStep ==
    \/ EnrichmentReady("request")
          /\ (\E r \in RequestOutcomes : RequestSettles(r))
          /\ UNCHANGED <<tokenVars, fetchVars, enrichVars, requestVars>>
    \/ EnrichmentReady("download")
          /\ (\E r \in DownloadOutcomes, written \in BOOLEAN : DownloadSettles(r, written))
          /\ UNCHANGED <<tokenVars, fetchVars, enrichVars, requestVars>>

EnrichmentRunning == epc \notin {"idle", "resolved"}

\* C24: enrichment overlaps the primary attempt.  enrichMetadata has been
\* called by the time the primary request is issued; while the primary
\* request or download is pending the controller can take its outcome
\* whether or not enrichMetadata has settled; and the controller moves past
\* its await of the enrichment only with the audio file in place and
\* enrichMetadata resolved.
C24_EnrichmentOverlapsPrimary ==
    /\ [](spc \notin {"idle", "metadata", "done"} => epc # "idle")
    /\ [](spc \in {"request", "download"} => ENABLED PrimaryStep)
    /\ [](spc = "enrichment" => fileExists)
    /\ [][(spc = "enrichment" /\ spc' # "enrichment")
             => fileExists /\ epc = "resolved"]_vars
    /\ [][(spc \in {"request", "download"} /\ spc' # spc) => epc' = epc]_vars

\* Witness for C24: the primary attempt has failed and the fallback has been
\* chosen while the recording search of enrichMetadata is still out.
C24_Witness ==
    /\ spc = "getYTDlp"
    /\ PrimaryFailed
    /\ epc = "search"
    /\ lookups = <<>>

SpecifiedEventTypes == {"status", "info", "progress", "metadata", "complete", "error"}

\* C25: the type of every event written to the stream is one of status,
\* info, progress, metadata, complete and error.
C25_EventTypesClosed ==
    \A i \in 1..Len(events) : events[i].type \in SpecifiedEventTypes

Albums(rs) == {i \in 1..Len(rs) : rs[i].primaryType = "Album"}

\* The release the selection rule names: the Album of least index, else the
\* first release.
Selected(rs) ==
    IF Albums(rs) # {}
    THEN rs[CHOOSE i \in Albums(rs) : \A j \in Albums(rs) : i <= j]
    ELSE rs[1]

\* C26: the release picked among those of the first recording is the first
\* whose release group is an Album, wherever it stands in the list, and the
\* first of the list when none is; the release id, the year and the track
\* number of the record lookupTrack returns are all those of that release.
C26_AlbumPreferred ==
    /\ [](epc = "sublookups" => releases # <<>> /\ release = <<Selected(releases)>>)
    /\ [][(epc = "sublookups" /\ epc' # "sublookups")
             => /\ metadata' # <<>>
                /\ metadata'[1].releaseId = Selected(releases).id
                /\ metadata'[1].year = Year(Selected(releases).date)
                /\ metadata'[1].trackNumber =
                       (IF Selected(releases).number = <<>> THEN ""
                        ELSE Selected(releases).number[1])]_vars

\* Witness for C26: the provider listed a Single before an Album and the
\* Album is the release picked.
C26_Witness ==
    /\ epc = "sublookups"
    /\ Len(releases) = 2
    /\ releases[1].primaryType = "Single"
    /\ releases[2].primaryType = "Album"
    /\ release = <<releases[2]>>

TopCount(tags) ==
    CHOOSE c \in {tags[i].count : i \in 1..Len(tags)} :
        \A i \in 1..Len(tags) : tags[i].count <= c

\* The genre the selection rule names: the name of the first tag whose count
\* is the highest, "" without tags.
TopGenre(tags) ==
    IF tags = <<>> THEN ""
    ELSE tags[CHOOSE i \in 1..Len(tags) :
                  /\ tags[i].count = TopCount(tags)
                  /\ \A j \in 1..(i - 1) : tags[j].count < TopCount(tags)].name

\* C27: the genre of the record lookupTrack returns is the name of the tag
\* with the highest count, the first of them in list order when several
\* share it, and the empty string when there are no tags.
C27_GenreIsFirstTopTag ==
    [][(epc = "sublookups" /\ epc' # "sublookups")
          => metadata' # <<>> /\ metadata'[1].genre = TopGenre(tagsP[1])]_vars

\* Witness for C27: two tags share the highest count and lookupTrack is
\* about to return with the genre of the first.
C27_Witness ==
    /\ epc = "sublookups"
    /\ tagsP = <<(<<Tag("pop", 2), Tag("rock", 2)>>)>>
    /\ labelP # <<>>
    /\ extractGenre(tagsP[1]) = "pop"

LookupMade(what) == \E i \in 1..Len(lookups) : lookups[i].what = what

ThumbnailRequested == epc = "thumbnail" \/ LookupMade("thumbnail")

\* C28: the artwork follows the chain cover art of the selected release,
\* then video thumbnail.  The cover art is asked for exactly when a release
\* was resolved; the thumbnail is asked for only when no release was
\* resolved or the cover-art fetch yielded nothing; the result is the cover
\* art when that fetch yielded an image, else the thumbnail when that one
\* did, and null only when neither did.
C28_ArtworkChain ==
    /\ LookupMade("coverArt") => metadata # <<>>
    /\ ThumbnailRequested =>
           \/ metadata = <<>> /\ ~LookupMade("coverArt")
           \/ LookupFailed("coverArt")
    /\ epc = "resolved" =>
           /\ metadata # <<>> => LookupMade("coverArt")
           /\ settled[1].artwork =
                  (IF LookupOk("coverArt") THEN <<Art("coverArt", "image/jpeg")>>
                   ELSE IF LookupOk("thumbnail") THEN <<Art("thumbnail", "image/jpeg")>>
                   ELSE <<>>)
           /\ query.videoId # "" /\ ~LookupOk("coverArt") => LookupMade("thumbnail")

\* Witness for C28: a release was found, its cover art was not (404), and
\* the thumbnail became the artwork.
C28_Witness ==
    /\ epc = "resolved"
    /\ metadata # <<>>
    /\ \E i \in 1..Len(lookups) : lookups[i] = [what |-> "coverArt", kind |-> "notOk"]
    /\ LookupOk("thumbnail")
    /\ settled[1].artwork = <<Art("thumbnail", "image/jpeg")>>

\* The chunks of the body being read, those already taken included: the
\* bodies of the model have sizes n, n - 1, ..., 1.
WholeBody ==
    [i \in 1..(Len(progress) + Len(body)) |-> Len(progress) + Len(body) - i + 1]

\* C29: with a callback, each chunk read is reported once, in order, with
\* the bytes received so far; the percentage (in hundredths, rounded down)
\* is bytesReceived / totalBytes * 100 when the response has a
\* content-length and 0 with totalBytes null when it has none; and the
\* buffer returned is as long as the last report says.  Without a callback
\* nothing is reported.
C29_ProgressPerChunk ==
    /\ [](~onProgress => progress = <<>>)
    /\ [](\A i \in 1..Len(progress) :
             /\ progress[i].bytesReceived = Sum(SubSeq(WholeBody, 1, i))
             /\ progress[i].totalBytes = totalBytes
             /\ IF totalBytes # <<>>
                THEN /\ progress[i].percent * totalBytes[1]
                           <= progress[i].bytesReceived * 10000
                     /\ progress[i].bytesReceived * 10000
                           < (progress[i].percent + 1) * totalBytes[1]
                ELSE progress[i].percent = 0)
    /\ [](fpc = "done" /\ onProgress =>
             /\ body = <<>>
             /\ outcome.byteLength =
                    (IF progress = <<>> THEN 0
                     ELSE progress[Len(progress)].bytesReceived))
    /\ [][(fpc = "reading" /\ body # <<>> /\ body' # body)
             => /\ body' = Tail(body)
                /\ Len(progress') = Len(progress) + 1
                /\ SubSeq(progress', 1, Len(progress)) = progress]_vars

\* Witness for C29: a body of two chunks with a content-length of 3 was
\* read: two reports, 66.66 % and 100 %, and a buffer of 3 bytes.
C29_Witness ==
    /\ fpc = "done"
    /\ onProgress
    /\ progress = <<[bytesReceived |-> 2, totalBytes |-> <<3>>, percent |-> 6666],
                    [bytesReceived |-> 3, totalBytes |-> <<3>>, percent |-> 10000]>>
    /\ outcome = Returned(3)

\* ---------------------------------------------------------------------
\* Claims about the validation of the request
\* ---------------------------------------------------------------------

\* `videoUrl.includes("list=")` of the specification's playlist exception.
IsPlaylistUrl(url) == url = PlaylistUrl

\* C30: a request is answered 400, with no stream opened and no provider
\* contacted, exactly when the url parameter is missing, or no video id
\* can be extracted from it and it is not a playlist URL; every other
\* request, a playlist URL without a video id included, gets the stream.
C30_PlaylistUrlAccepted ==
    /\ response = "400" => events = <<>> /\ spc = "idle" /\ primary = <<>>
    /\ response # "none" =>
          (response = "400" <=>
              \/ requestUrl = <<>>
              \/ /\ extractVideoId(requestUrl[1]) = <<>>
                 /\ ~IsPlaylistUrl(requestUrl[1]))

\* ---------------------------------------------------------------------
\* Further claims about the token cache
\* ---------------------------------------------------------------------

\* A step in which suspended attempts resume and settle their callers.
AttemptResumes == attempts' # attempts /\ attempts' \subseteq attempts

FailureOutcomes == {"incomplete", "malformed", "rejected", "timeout"}

\* C31: an attempt that ends in a rejection, a timeout or a payload with an
\* empty or missing poToken or visitorData records the time of the failure
\* and leaves the cached entry as it was, token and time stamp alike; a
\* successful one caches what it generated and forgets the failure.
C31_FailureLeavesCache ==
    [][AttemptResumes =>
          /\ last'.via = "attempt"
          /\ (last'.outcome \in FailureOutcomes) =>
                 /\ cached' = cached
                 /\ lastFailedAt' = now
                 /\ inBackoff'
          /\ (last'.outcome \notin FailureOutcomes) =>
                 /\ last'.outcome = "token"
                 /\ cached' # <<>> /\ cached'[1].fetchedAt = now
                 /\ lastFailedAt' = 0]_vars

\* Witness for C31: an attempt has just failed on an incomplete payload
\* while an entry older than the TTL was cached; the entry is still there
\* with its old time stamp, and the failure is recorded.
C31_Witness ==
    /\ last.via = "attempt" /\ last.outcome = "incomplete"
    /\ cached # <<>> /\ now - cached[1].fetchedAt >= CACHE_TTL_MS
    /\ lastFailedAt = now

AttemptIds == {a.id : a \in attempts}

\* C32: whatever the generator does, and if it never settles, a pending
\* fetchPoToken call resolves: the timer of its attempt fires once the
\* generation timeout has elapsed.  The in-flight marker is cleared in the
\* step in which an attempt ends, so it always names an attempt that is
\* still pending, and so does the promise every waiting caller holds.
C32_PendingCallsResolve ==
    /\ \A c \in Callers : (callers[c].pc = "waiting") ~> (callers[c].pc = "idle")
    /\ [][AttemptResumes => inFlight' = Null]_vars
    /\ [](inFlight # Null => inFlight \in AttemptIds)
    /\ [](\A c \in Callers : callers[c].pc = "waiting" => callers[c].on \in AttemptIds)
    /\ [][(AttemptResumes /\ last'.outcome = "timeout") =>
             \A a \in attempts \ attempts' :
                 now - a.startedAt >= GENERATION_TIMEOUT_MS]_vars

\* Witness for C32: both callers were waiting on one attempt whose generator
\* is still pending; the timer fired at the timeout and released them with
\* null, and the marker is clear.
C32_Witness ==
    /\ last.via = "attempt" /\ last.outcome = "timeout" /\ last.n = NumCallers
    /\ last.value = Null /\ last.settled = "resolved"
    /\ generations # {}
    /\ inFlight = Null
    /\ \A c \in Callers : callers[c].pc = "idle"

\* ---------------------------------------------------------------------
\* Further claims about the controller
\* ---------------------------------------------------------------------

CompleteEvents == {i \in 1..Len(events) : events[i].type = "complete"}

\* The fallback process exited with code 0 and left the audio file.
FallbackProduced == fallbackStarted /\ fileExists

\* C33: the complete event names the provider that produced the file:
\* "cobalt" exactly when the primary attempt succeeded (the payload was
\* written), "yt-dlp" exactly when the primary attempt failed and the
\* fallback process left the file; it names nothing else.
C33_MethodNamesProvider ==
    \A i \in CompleteEvents :
        /\ events[i].downloadMethod \in {"cobalt", "yt-dlp"}
        /\ events[i].downloadMethod = "cobalt" <=> PrimarySucceeded
        /\ events[i].downloadMethod = "yt-dlp" <=> (PrimaryFailed /\ FallbackProduced)
        /\ events[i].downloadMethod = downloadMethod
        /\ fileExists

\* Witness for C33: the primary attempt wrote the file and the request
\* completed with an event naming cobalt.
C33_Witness ==
    /\ spc = "done"
    /\ PrimarySucceeded /\ ~fallbackStarted
    /\ \E i \in CompleteEvents : events[i].downloadMethod = "cobalt"

\* The enrichMetadata calls made with an artist and a title.
NamedEnrichments ==
    {i \in 1..Len(enrichments) : enrichments[i].artist # "" /\ enrichments[i].title # ""}

\* C34: enrichment is restarted at most once per request, and only when
\* the first call had no artist and title and the restart has both.  The
\* promise the controller holds, and awaits before the metadata event and
\* the tagging, is that of the one call made with an artist and a title
\* whenever there is one; the promise of the call without inputs never
\* replaces it, and no later tool event changes it.
C34_NamedEnrichmentKept ==
    /\ [](/\ Len(enrichments) <= 2
          /\ Cardinality(NamedEnrichments) <= 1
          /\ enrichmentPromise = Len(enrichments)
          /\ Len(enrichments) = 2 => NamedEnrichments = {2}
          /\ NamedEnrichments # {} => enrichmentPromise \in NamedEnrichments)
    /\ [][/\ (NamedEnrichments # {}) =>
                 enrichments' = enrichments /\ enrichmentPromise' = enrichmentPromise
          /\ (spc \notin {"metadata", "process"}) =>
                 enrichments' = enrichments /\ enrichmentPromise' = enrichmentPromise]_vars

\* Witness for C34: the first call had no inputs; a tool event gave the
\* title, enrichment was restarted with artist and title, two more tool
\* events followed, and the controller has awaited the restarted call.
C34_Witness ==
    /\ spc = "stat"
    /\ Len(enrichments) = 2
    /\ enrichments[1] = [artist |-> "", title |-> ""]
    /\ enrichments[2] = [artist |-> "Artist", title |-> "Song"]
    /\ enrichmentPromise = 2
    /\ procEvents = 3

\* ---------------------------------------------------------------------
\* Claims about the request to the Cobalt API
\* ---------------------------------------------------------------------

\* <<isRateLimit, isUnavailable, isAuthRequired>> of what was thrown.
Flags(e) == <<e.isRateLimit, e.isUnavailable, e.isAuthRequired>>

\* The response carried a structured error: an object of status "error"
\* with an error code.
Structured(r) ==
    /\ r.kind = "response" /\ r.status \notin {429, 401, 403}
    /\ r.body.json = "object" /\ r.body.status = "error" /\ r.body.code # <<>>

\* The response is a failure without a structured error: a body that is
\* no JSON, or not an object, or an error without code, or a status
\* outside 2xx.
Unstructured(r) ==
    /\ r.kind = "response" /\ r.status \notin {429, 401, 403}
    /\ ~Structured(r)
    /\ \/ r.body.json # "object"
       \/ r.body.status = "error"
       \/ ~(r.status >= 200 /\ r.status <= 299)

Succeeds(r) ==
    /\ r.kind = "response" /\ r.status >= 200 /\ r.status <= 299
    /\ r.body.json = "object" /\ r.body.status \in {"tunnel", "redirect"}

Orphaned(g) == g \in generations /\ activeGeneration # g

\* C36: a generation that was in flight when clearCache was called never
\* repopulates the cache when it settles, and a fetchPoToken call made
\* after that clearCache never awaits an attempt on that generation.
C36_ClearedGenerationDiscarded ==
    [][/\ \A g \in generations :
              (Orphaned(g) /\ g \notin generations') => cached' = cached
       /\ \A c \in Callers :
              (callers[c].pc = "idle" /\ callers'[c].pc = "waiting") =>
                  \A a \in attempts' :
                      a.id = callers'[c].on => ~Orphaned(a.gen)]_vars

\* ---------------------------------------------------------------------
\* Claims about the error type of a failed download
\* ---------------------------------------------------------------------

\* C37: whatever string fetchCobaltAudio is given, a call that fails
\* rejects with a CobaltError: a refused URL, a string that is no URL, a
\* blocked or malformed redirect, a response that is not OK, a network
\* error and a timeout alike.
C37_EveryFailureIsCobaltError ==
    fpc = "failed" => outcome.kind = "CobaltError"

\* ---------------------------------------------------------------------
\* Claims about the arguments of the fallback process
\* ---------------------------------------------------------------------

\* The characters [A-Za-z0-9._-+/=%].
AllowedTokenChars ==
    UpperCase \cup LowerCase \cup Digits \cup {".", "_", "-", "+", "/", "=", "%"}

OnlyAllowedChars(str) ==
    str # <<>> /\ \A i \in 1..Len(str) : str[i] \in AllowedTokenChars

\* The text of token `t` is part of argument `arg`.
HasTokenText(arg, t) ==
    \E i \in 1..Len(arg), part \in {t.poToken, t.visitorData} :
        /\ i + Len(part) - 1 <= Len(arg)
        /\ SubSeq(arg, i, i + Len(part) - 1) = part

\* No argument of the base list holds the text of a token.
BaseArgsHoldNoToken ==
    \A i \in 1..Len(BaseArgs), t \in TokenResults :
        t # <<>> => ~HasTokenText(BaseArgs[i], t[1])

\* The argument lists that end in the text of a token made of the allowed
\* characters only.
ArgsWithSafeToken ==
    {BaseArgs \o <<<<"--extractor-args">>, ExtractorArgs(t[1])>> :
        t \in {u \in TokenResults :
                  /\ u # <<>>
                  /\ OnlyAllowedChars(u[1].poToken)
                  /\ OnlyAllowedChars(u[1].visitorData)}}

\* C38: the process is started either with the base arguments, none of
\* which holds the text of any token, or with the base arguments followed
\* by --extractor-args and the text of a token both of whose parts are
\* made of the characters [A-Za-z0-9._-+/=%] only; when no token was
\* obtained it is started with the base arguments.
C38_TokenArgsOnlyWhenSafe ==
    args # <<>> =>
        /\ tokenMissing => args = BaseArgs
        /\ \/ ~tokenArgs /\ args = BaseArgs /\ BaseArgsHoldNoToken
           \/ tokenArgs /\ args \in ArgsWithSafeToken

\* Witness for C38: a token was obtained whose text is not made of the
\* allowed characters, and the process runs with the base arguments.
C38_Witness ==
    /\ spc = "process"
    /\ ~tokenMissing
    /\ ~tokenArgs
    /\ args = BaseArgs

====
